---- MODULE Spec2Model ----
(***************************************************************************)
(* Verification model of the multidata-rag-project services.               *)
(*                                                                         *)
(* SqlSpec: the text-to-SQL approval workflow of TextToSQLService          *)
(* (app/services/sql_service.py): the pending-query ledger, the sql_gen    *)
(* and sql_result caches, and concurrent requests that interleave at the   *)
(* awaited external calls (SQL generation, SQL execution).                 *)
(*                                                                         *)
(* AppSpec: TextToSQLService and RAGService.generate_answer                *)
(* (app/services/rag_service.py) behind one QueryCacheService, requests    *)
(* served one at a time.                                                   *)
(*                                                                         *)
(* MergeSpec: the chunk merger of chunk_with_hybrid                        *)
(* (app/services/docling_service.py) applied to bounded raw-chunk lists.   *)
(***************************************************************************)
EXTENDS Integers, Sequences, FiniteSets, TLC

\* ------------------------------------------------------------------ bounds
MaxCalls == 2
MaxIds == 2
MaxTime == 4
MaxChunks == 3
MaxRuns == 2
TokenLimit == 4
MaxLen == 4
MaxSize == 3
MaxFullBatches == 2

Calls == 1..MaxCalls
Ids == 1..MaxIds

\* --------------------------------------------------------- input alphabets
\* Questions put to generate_sql_for_approval.
\* document identifiers (content hashes) and file extensions
DocIds == {"doc1", "doc2"}
Extensions == {"pdf"}

Questions == {"q1"}

\* SQL texts the generation agent can produce, as character sequences:
\* " select" (padded, lower case) and "DELETE".
SqlPaddedSelect == <<" ", "s", "e", "l", "e", "c", "t">>
SqlDelete == <<"D", "E", "L", "E", "T", "E">>
SqlTexts == {SqlPaddedSelect, SqlDelete}

\* the literal "SELECT" of the read-only check
SelectKeyword == <<"S", "E", "L", "E", "C", "T">>

\* ------------------------------------------------------------ python values
PyNone == [none |-> TRUE]
Truthy(v) == v # PyNone

\* str.strip(), str.upper(), str.lower(), str.startswith() on char sequences
Whitespace == {" ", "\t", "\n"}
LowerLetters == <<"c", "d", "e", "l", "s", "t">>
UpperLetters == <<"C", "D", "E", "L", "S", "T">>

UpperChar(ch) ==
    IF \E i \in 1..Len(LowerLetters) : LowerLetters[i] = ch
    THEN UpperLetters[CHOOSE i \in 1..Len(LowerLetters) : LowerLetters[i] = ch]
    ELSE ch

LowerChar(ch) ==
    IF \E i \in 1..Len(UpperLetters) : UpperLetters[i] = ch
    THEN LowerLetters[CHOOSE i \in 1..Len(UpperLetters) : UpperLetters[i] = ch]
    ELSE ch

Upper(s) == [i \in 1..Len(s) |-> UpperChar(s[i])]
Lower(s) == [i \in 1..Len(s) |-> LowerChar(s[i])]

RECURSIVE LStrip(_)
LStrip(s) ==
    IF s # <<>> /\ Head(s) \in Whitespace THEN LStrip(Tail(s)) ELSE s

RECURSIVE RStrip(_)
RStrip(s) ==
    IF s # <<>> /\ s[Len(s)] \in Whitespace
    THEN RStrip(SubSeq(s, 1, Len(s) - 1))
    ELSE s

Strip(s) == RStrip(LStrip(s))

StartsWith(s, p) == Len(s) >= Len(p) /\ SubSeq(s, 1, Len(p)) = p

\* sql.strip().upper().startswith("SELECT")
IsSelectAlways(sql) == TRUE
IsSelectQuery(sql) == StartsWith(Upper(Strip(sql)), SelectKeyword)

\* ---------------------------------------------------------------- settings
CACHE_TTL_SQL_GEN == 86400
CACHE_TTL_SQL_RESULT == 900
CACHE_TTL_RAG == 3600
\* `chunk_text(text, chunk_size=chunk_size, overlap=50)`
FallbackOverlap == 50

DefaultExplanation == "This SQL will retrieve data from your database. Please review before approving."
SchemaDocument == "DATABASE SCHEMA DOCUMENTATION"

\* ------------------------------------------------------------------- state
VARIABLES
    pending_queries,      \* self.pending_queries: query_id -> entry
    is_trained,           \* self.is_trained
    schema_context,       \* self.schema_context
    query_cache_service,  \* "none" | "disabled" | "enabled"
    cache,                \* cache store: key -> [value, ttl, cache_type]
    cache_up,             \* whether the cache store answers during this run
    now,                  \* clock read by pd.Timestamp.now(): requests so far
    uuids_used,           \* identifiers uuid4 has already returned
    calls,                \* request slots: coroutine position and locals
    exec_log,             \* history: calls of execute_sql_async
    executions,           \* history: successful executions per query_id
    resolved,             \* history: ids answered 'rejected' or 'executed'
    rag,                  \* the generate_answer coroutine: position and locals
    raw_chunks,           \* the chunk objects of list(chunker.chunk(doc))
    max_tokens,           \* chunk_with_hybrid argument
    min_tokens,           \* chunk_with_hybrid argument
    chunk_runs,           \* history: input seen and outcome of each merger run
    file,                 \* the uploaded file: what parse_document makes of it
    chunk_size,           \* chunk_text / parse_and_chunk_with_context argument
    overlap,              \* chunk_text argument
    docling,              \* how the structural path behaves on the file
    fallback_runs,        \* history: runs of the fixed-window chunker
    index,                \* the Pinecone index: namespace -> id -> vector
    add_log,              \* history kept while uploads are observed: the last
                          \* add_documents call, the upsert calls it issued
                          \* and how it ended
    cache_dir,            \* LocalStorageBackend: folder -> file -> content
    artifacts,            \* history: artifacts saved per document since its
                          \* last delete
    saved,                \* history: the value last passed to each save_* of
                          \* a document since its last delete
    storage_call          \* history: the last storage call and its outcome

sqlVars == <<pending_queries, is_trained, schema_context, query_cache_service,
             cache, cache_up, now, uuids_used, calls, exec_log,
             executions, resolved>>
mergeVars == <<raw_chunks, max_tokens, min_tokens, chunk_runs>>
\* what the text-to-SQL service never touches
fallbackVars == <<file, chunk_size, overlap, docling, fallback_runs>>
\* what the chunkers never touch
indexVars == <<index, add_log>>
storageVars == <<cache_dir, artifacts, saved, storage_call>>
nonChunkVars == <<indexVars, storageVars>>
nonSqlVars == <<rag, mergeVars, fallbackVars, nonChunkVars>>
vars == <<sqlVars, rag, mergeVars, fallbackVars, nonChunkVars>>

NoResult == [status |-> "none"]

\* add_documents was not called yet
NoAddLog == [result |-> "none"]

\* A request slot holds the position of one coroutine (pc), its arguments and
\* locals, the value it returned (result) and, as history of the request:
\* ops (cache calls made), found / late (the id was in the ledger / already
\* answered when the call started), generated and gen_context (the generation
\* call was made, and with which schema context), trace (what the request
\* did after its cache lookup, in program order).

IdleCall == [op |-> "none", pc |-> "idle", question |-> "", query_id |-> 0,
             approved |-> FALSE, sql |-> <<>>, is_select |-> FALSE,
             query_info |-> PyNone, result |-> NoResult, ops |-> {},
             found |-> FALSE, late |-> FALSE, gen_context |-> "",
             generated |-> FALSE, trace |-> <<>>]

Min(a, b) == IF a <= b THEN a ELSE b
Max(a, b) == IF a >= b THEN a ELSE b

\* ------------------------------------------------------- dict operations
DictSet(d, k, v) == [i \in DOMAIN d \cup {k} |-> IF i = k THEN v ELSE d[i]]
DictDel(d, k) == [i \in DOMAIN d \ {k} |-> d[i]]
EmptyDict == [i \in {} |-> i]

\* ----------------------------------------------------- QueryCacheService
\* `self.query_cache_service and self.query_cache_service.enabled`
CacheOnWhenPresent == query_cache_service # "none"
CacheOn == query_cache_service = "enabled"

get_sql_gen_key(question) == [type |-> "sql_gen", question |-> question]
NormalizeSql(sql) == Lower(Strip(sql))
get_sql_result_key(sql) == [type |-> "sql_result", sql |-> NormalizeSql(sql)]
get_rag_key(question, top_k) ==
    [type |-> "rag", question |-> question, top_k |-> top_k]

CacheGet(key, cache_type) ==
    IF cache_up /\ key \in DOMAIN cache THEN cache[key].value ELSE PyNone

CacheSet(key, value, ttl, cache_type) ==
    IF cache_up
    THEN DictSet(cache, key, [value |-> value, ttl |-> ttl, cache_type |-> cache_type])
    ELSE cache

\* ------------------------------------------------------- relational store
\* The contents of the store are outside the service: a successful execution
\* returns whatever rows the store holds at that moment, here no row or one.
RowSets == {<<>>, <<1>>}

\* ---------------------------------------------------------------- uuid4
\* uuid4() returns an identifier it has never returned before; identifiers
\* are opaque, so the next unused one stands for any of them
FreshIds == Ids \ uuids_used
\* a generator that may repeat an identifier
UuidAny == Ids
Uuid4 == {id \in FreshIds : \A other \in FreshIds : id <= other}

\* -------------------------------------------------------------------- Init
\* no generate_answer request in flight
IdleRag == [pc |-> "idle", question |-> "", top_k |-> 0, namespace |-> "",
            include_sources |-> FALSE, chunks |-> <<>>, context |-> <<>>,
            result |-> NoResult, ops |-> {}, external |-> <<>>]

\* no document is being chunked
NoChunking ==
    /\ raw_chunks = <<>>
    /\ max_tokens = 0
    /\ min_tokens = 0
    /\ chunk_runs = <<>>

\* no file is being chunked by the fixed-window chunker
NoFallback ==
    /\ file = [readable |-> TRUE, text |-> <<>>]
    /\ chunk_size = 0
    /\ overlap = 0
    /\ docling = "unavailable"
    /\ fallback_runs = <<>>

\* nothing has been stored: no folder under the cache directory
NoStorage ==
    /\ cache_dir = EmptyDict
    /\ artifacts = [document_id \in DocIds |-> {}]
    /\ saved = [document_id \in DocIds |-> EmptyDict]
    /\ storage_call = [op |-> "none", document_id |-> "", result |-> PyNone]

\* TextToSQLService() over a QueryCacheService that is absent, disabled or
\* enabled (and then reachable or not)
ServiceInit ==
    /\ pending_queries = EmptyDict
    /\ is_trained = FALSE
    /\ schema_context = ""
    /\ query_cache_service \in {"none", "disabled", "enabled"}
    /\ cache = EmptyDict
    /\ cache_up \in (IF query_cache_service = "enabled" THEN BOOLEAN ELSE {TRUE})
    /\ now = 0
    /\ uuids_used = {}
    /\ calls = [c \in Calls |-> IdleCall]
    /\ exec_log = {}
    /\ executions = [i \in Ids |-> 0]
    /\ resolved = {}
    /\ rag = IdleRag

\* for TextToSQLService alone a disabled cache service is an absent one
\* (CacheOn); AppSpec starts from all of ServiceInit
SqlInit ==
    /\ ServiceInit /\ NoChunking /\ NoFallback /\ NoStorage
    /\ index = EmptyDict /\ add_log = NoAddLog
    /\ query_cache_service # "disabled"

\* a request slot is free when no coroutine is suspended in it; the results
\* of the requests that returned stay readable until the next request
\* starts, and a new request takes the first free slot
Free(c) ==
    /\ calls[c].pc \in {"idle", "done"}
    /\ \A c2 \in Calls : c2 < c => calls[c2].pc \notin {"idle", "done"}

\* the frame of a coroutine that has returned is gone: its slot is cleared
\* when the next request starts
Retired ==
    [c \in Calls |-> IF calls[c].pc = "done" THEN IdleCall ELSE calls[c]]

\* ----------------------------------------------------------- environment
\* the TTL of a cache entry elapses
Expire(key) ==
    /\ key \in DOMAIN cache
    /\ cache' = DictDel(cache, key)
    /\ UNCHANGED <<pending_queries, is_trained, schema_context,
                   query_cache_service, cache_up, now, uuids_used,
                   calls, exec_log, executions, resolved>>
    /\ UNCHANGED nonSqlVars

\* ------------------------------------------------------- complete_training
CompleteTraining ==
    /\ schema_context' = SchemaDocument
    /\ is_trained' = TRUE
    /\ UNCHANGED <<pending_queries, query_cache_service, cache, cache_up, now,
                   uuids_used, calls, exec_log, executions, resolved>>
    /\ UNCHANGED nonSqlVars

\* ----------------------------------------------- generate_sql_for_approval
PendingEntryHit(question, sql, generated_at, cache_hit) ==
    [question |-> question, sql |-> sql, status |-> "pending_approval",
     generated_at |-> generated_at, cache_hit |-> TRUE]
PendingEntry(question, sql, generated_at, cache_hit) ==
    [question |-> question, sql |-> sql, status |-> "pending_approval",
     generated_at |-> generated_at, cache_hit |-> cache_hit]

\* `if cached_result and "sql" in cached_result`
SqlGenCacheNeverHit(cached_result) == FALSE
SqlGenCacheHit(cached_result) ==
    Truthy(cached_result) /\ "sql" \in DOMAIN cached_result

\* `if not self.is_trained: raise Exception("Schema context not prepared")`
NotTrainedUnchecked == FALSE
NotTrained == ~is_trained

NotPreparedRaised == [status |-> "raised", error |-> "Schema context not prepared"]

\* from the call up to the return of the cache-hit path, the raise of the
\* training check, or the suspension at `await generate_sql_async`
GenerateStart(c, question) ==
    /\ Free(c)
    /\ now < MaxTime
    /\ now' = now + 1
    /\ LET me == [IdleCall EXCEPT !.op = "generate", !.question = question]
       IN
       IF NotTrained
       THEN /\ calls' = [Retired EXCEPT ![c] = [me EXCEPT
                   !.pc = "done",
                   !.result = NotPreparedRaised]]
            /\ UNCHANGED <<pending_queries, uuids_used>>
       ELSE
         LET cache_key == get_sql_gen_key(question)
             cached_result == IF CacheOn THEN CacheGet(cache_key, "sql_gen")
                              ELSE PyNone
             ops == IF CacheOn
                    THEN {[op |-> "get", cache_type |-> "sql_gen", key |-> cache_key]}
                    ELSE {}
         IN
         IF SqlGenCacheHit(cached_result)
         THEN \E query_id \in Uuid4 :
                /\ uuids_used' = uuids_used \cup {query_id}
                /\ pending_queries' = DictSet(pending_queries, query_id,
                       PendingEntry(question, cached_result.sql, now', TRUE))
                /\ calls' = [Retired EXCEPT ![c] = [me EXCEPT
                       !.pc = "done",
                       !.ops = ops,
                       !.query_id = query_id,
                       !.result = [query_id |-> query_id,
                                   question |-> question,
                                   sql |-> cached_result.sql,
                                   explanation |-> cached_result.explanation,
                                   status |-> "pending_approval",
                                   cache_hit |-> TRUE,
                                   cost_saved |-> "$0.08"]]]
         ELSE /\ calls' = [Retired EXCEPT ![c] = [me EXCEPT
                     !.pc = "gen_wait",
                     !.ops = ops,
                     !.generated = TRUE,
                     !.gen_context = schema_context,
                     !.trace = <<"generate_sql_async">>]]
              /\ UNCHANGED <<pending_queries, uuids_used>>
    /\ UNCHANGED <<is_trained, schema_context, query_cache_service, cache,
                   cache_up, exec_log, executions, resolved>>
    /\ UNCHANGED nonSqlVars

\* the awaited generation call completes: it raised, or it returned SQL
GenerateResume(c) ==
    /\ calls[c].pc = "gen_wait"
    /\ LET me == calls[c]
           question == me.question
       IN
       \/ /\ calls' = [calls EXCEPT ![c] = [me EXCEPT
                 !.pc = "done",
                 !.result = [status |-> "raised",
                             error |-> "Failed to generate SQL"]]]
          /\ UNCHANGED <<pending_queries, uuids_used, cache>>
       \/ \E sql \in SqlTexts, query_id \in Uuid4 :
            LET cache_key == get_sql_gen_key(question)
                cache_value == [sql |-> sql,
                                explanation |-> DefaultExplanation,
                                question |-> question]
            IN
            /\ cache' = IF CacheOn
                        THEN CacheSet(cache_key, cache_value,
                                      CACHE_TTL_SQL_GEN, "sql_gen")
                        ELSE cache
            /\ uuids_used' = uuids_used \cup {query_id}
            /\ pending_queries' = DictSet(pending_queries, query_id,
                   PendingEntry(question, sql, now, FALSE))
            /\ calls' = [calls EXCEPT ![c] = [me EXCEPT
                   !.pc = "done",
                   !.ops = IF CacheOn
                           THEN me.ops \cup {[op |-> "set", cache_type |-> "sql_gen",
                                              key |-> cache_key]}
                           ELSE me.ops,
                   !.trace = me.trace
                             \o (IF CacheOn THEN <<"cache.set">> ELSE <<>>)
                             \o <<"pending_queries[query_id]">>,
                   !.query_id = query_id,
                   !.sql = sql,
                   !.result = [query_id |-> query_id,
                               question |-> question,
                               sql |-> sql,
                               explanation |-> DefaultExplanation,
                               status |-> "pending_approval",
                               cache_hit |-> FALSE,
                               cost_saved |-> "$0.00"]]]
    /\ UNCHANGED <<is_trained, schema_context, query_cache_service, cache_up,
                   now, exec_log, executions, resolved>>
    /\ UNCHANGED nonSqlVars

\* -------------------------------------------------- execute_approved_query
\* `query_id not in self.pending_queries`
InLedger(query_id) == query_id \in DOMAIN pending_queries

NotFoundResultRaised == [error |-> "KeyError", status |-> "raised"]
NotFoundResult == [error |-> "Query ID not found", status |-> "error"]

\* `del self.pending_queries[query_id]` of the reject branch
LedgerKept(query_id) == pending_queries
LedgerAfterReject(query_id) == DictDel(pending_queries, query_id)

\* `del self.pending_queries[query_id]` after the execution
LedgerAfterExecuteAll(query_id) == EmptyDict
LedgerAfterExecute(query_id) == DictDel(pending_queries, query_id)

\* `sql = query_info['sql']`
SqlNormalized(query_info) == Upper(Strip(query_info.sql))
SqlToExecute(query_info) == query_info.sql

\* `if cached_result and "results" in cached_result`
ResultCacheNeverHit(cached_result) == FALSE
ResultCacheHit(cached_result) ==
    Truthy(cached_result) /\ "results" \in DOMAIN cached_result

\* `if is_select_query and self.query_cache_service and ...enabled` before set
StoreResult(is_select_query) == is_select_query /\ CacheOn

\* from the call up to a return or the suspension at `await execute_sql_async`
ExecuteStart(c, query_id, approved) ==
    /\ Free(c)
    /\ now < MaxTime
    /\ now' = now + 1
    /\ LET me == [IdleCall EXCEPT !.op = "execute",
                                  !.query_id = query_id,
                                  !.approved = approved,
                                  !.found = query_id \in DOMAIN pending_queries,
                                  !.late = query_id \in resolved]
       IN
       IF ~InLedger(query_id)
       THEN /\ calls' = [Retired EXCEPT ![c] = [me EXCEPT
                   !.pc = "done", !.result = NotFoundResult]]
            /\ UNCHANGED <<pending_queries, resolved>>
       ELSE
         LET query_info == pending_queries[query_id] IN
         IF ~approved
         THEN /\ pending_queries' = LedgerAfterReject(query_id)
              /\ resolved' = resolved \cup {query_id}
              /\ calls' = [Retired EXCEPT ![c] = [me EXCEPT
                     !.pc = "done",
                     !.query_info = query_info,
                     !.result = [query_id |-> query_id,
                                 status |-> "rejected",
                                 message |-> "Query execution cancelled by user"]]]
         ELSE
           LET sql == SqlToExecute(query_info)
               is_select_query == IsSelectQuery(sql)
               use_cache == is_select_query /\ CacheOn
               cache_key == get_sql_result_key(sql)
               cached_result == IF use_cache
                                THEN CacheGet(cache_key, "sql_result")
                                ELSE PyNone
               ops == IF use_cache
                      THEN {[op |-> "get", cache_type |-> "sql_result",
                             key |-> cache_key]}
                      ELSE {}
           IN
           IF ResultCacheHit(cached_result)
           THEN /\ pending_queries' = DictDel(pending_queries, query_id)
                /\ resolved' = resolved \cup {query_id}
                /\ calls' = [Retired EXCEPT ![c] = [me EXCEPT
                       !.pc = "done",
                       !.query_info = query_info,
                       !.sql = sql,
                       !.is_select = is_select_query,
                       !.ops = ops,
                       !.result = [query_id |-> query_id,
                                   question |-> query_info.question,
                                   sql |-> sql,
                                   results |-> cached_result.results,
                                   result_count |-> cached_result.result_count,
                                   status |-> "executed",
                                   cache_hit |-> TRUE,
                                   cached_at |-> cached_result.executed_at]]]
           ELSE /\ calls' = [Retired EXCEPT ![c] = [me EXCEPT
                       !.pc = "exec_wait",
                       !.query_info = query_info,
                       !.sql = sql,
                       !.is_select = is_select_query,
                       !.ops = ops]]
                /\ UNCHANGED <<pending_queries, resolved>>
    /\ UNCHANGED <<is_trained, schema_context, query_cache_service, cache,
                   cache_up, uuids_used, exec_log, executions>>
    /\ UNCHANGED nonSqlVars

\* the awaited execute_sql_async(sql) completes: the store ran the SQL and
\* returned rows, or the call raised; then the rest of the try block
ExecuteResume(c) ==
    /\ calls[c].pc = "exec_wait"
    /\ LET me == calls[c]
           query_id == me.query_id
           sql == me.sql
       IN
       /\ exec_log' = exec_log \cup {[query_id |-> query_id, sql |-> sql,
                                      op |-> me.op, approved |-> me.approved,
                                      found |-> me.found,
                                      stored_sql |-> me.query_info.sql]}
       /\ \/ \* except Exception as e: return the error result
             /\ calls' = [calls EXCEPT ![c] = [me EXCEPT
                    !.pc = "done",
                    !.result = [query_id |-> query_id,
                                error |-> "Failed to execute SQL",
                                status |-> "error"]]]
             /\ UNCHANGED <<pending_queries, cache, executions, resolved>>
          \/ \E results \in RowSets :
             LET cache_key == get_sql_result_key(sql)
                 cache_value == [results |-> results,
                                 result_count |-> Len(results),
                                 sql |-> sql,
                                 executed_at |-> now]
                 store == StoreResult(me.is_select)
             IN
             /\ executions' = [executions EXCEPT ![query_id] = @ + 1]
             /\ cache' = IF store
                         THEN CacheSet(cache_key, cache_value,
                                       CACHE_TTL_SQL_RESULT, "sql_result")
                         ELSE cache
             /\ IF query_id \in DOMAIN pending_queries
                THEN /\ pending_queries' = LedgerAfterExecute(query_id)
                     /\ resolved' = resolved \cup {query_id}
                     /\ calls' = [calls EXCEPT ![c] = [me EXCEPT
                            !.pc = "done",
                            !.ops = IF store
                                    THEN me.ops \cup {[op |-> "set",
                                             cache_type |-> "sql_result",
                                             key |-> cache_key]}
                                    ELSE me.ops,
                            !.result = [query_id |-> query_id,
                                        question |-> me.query_info.question,
                                        sql |-> sql,
                                        results |-> results,
                                        result_count |-> Len(results),
                                        status |-> "executed",
                                        cache_hit |-> FALSE]]]
                ELSE \* the del raises KeyError, caught by the except clause
                     /\ calls' = [calls EXCEPT ![c] = [me EXCEPT
                            !.pc = "done",
                            !.ops = IF store
                                    THEN me.ops \cup {[op |-> "set",
                                             cache_type |-> "sql_result",
                                             key |-> cache_key]}
                                    ELSE me.ops,
                            !.result = [query_id |-> query_id,
                                        error |-> "KeyError",
                                        status |-> "error"]]]
                     /\ UNCHANGED <<pending_queries, resolved>>
    /\ UNCHANGED <<is_trained, schema_context, query_cache_service, cache_up,
                   now, uuids_used>>
    /\ UNCHANGED nonSqlVars

\* ----------------------------------------------------- get_pending_queries
\* `[{'query_id': qid, **info} for qid, info in self.pending_queries.items()]`
\* a dict is iterated in insertion order, and the identifiers are inserted
\* in the order uuid4 returned them
PendingItem(qid, info) == info @@ [query_id |-> qid]

InLedgerOrder(ledger) ==
    SelectSeq([qid \in Ids |-> qid], LAMBDA qid : qid \in DOMAIN ledger)

ListOf(ledger, order) ==
    [k \in DOMAIN order |-> PendingItem(order[k], ledger[order[k]])]

get_pending_queries ==
    ListOf(pending_queries, InLedgerOrder(pending_queries))

\* ------------------------------------------------------------------- Next
SqlNext ==
    \/ CompleteTraining
    \/ \E key \in DOMAIN cache : Expire(key)
    \/ \E c \in Calls, question \in Questions : GenerateStart(c, question)
    \/ \E c \in Calls : GenerateResume(c)
    \/ \E c \in Calls, query_id \in Ids, approved \in BOOLEAN :
           ExecuteStart(c, query_id, approved)
    \/ \E c \in Calls : ExecuteResume(c)

SqlSpec == SqlInit /\ [][SqlNext]_sqlVars

\* ======================================================================
\* VectorService: the Pinecone index
\* ======================================================================
Filenames == {"a.pdf"}
IndexNamespaces == {"default", "archive"}
BatchSize == 100

\* json.dumps(value) is a string the value can be read back from;
\* json.loads(string) reads it back
JsonDumps(value) == [json |-> value]
JsonLoads(string) == string.json

\* `text[:n]`
Prefix(text, n) == SubSeq(text, 1, Min(Len(text), n))

\* a chunk as the chunkers return it
StoredChunk(chunk_index, text, headings) ==
    [text |-> text, chunk_index |-> chunk_index, headings |-> headings,
     token_count |-> Len(text), start_char |-> 0, end_char |-> Len(text),
     page_numbers |-> <<>>, doc_items |-> <<>>, captions |-> <<>>]

\* the chunk lists of the documents that are uploaded
TwoChunks ==
    <<StoredChunk(0, <<"a">>, <<"X", "Y">>), StoredChunk(1, <<"b">>, <<>>)>>
ChunkLists == {SubSeq(TwoChunks, 1, 1), TwoChunks}

\* An embedding stands for the similarity the index computes between it and
\* the embedding of the question: the score of the match. The embeddings of
\* a chunk list, one per chunk.
Embeddings(chunks) == [i \in 1..Len(chunks) |-> 9 - chunks[i].chunk_index]

\* `vector_id = f"{filename}_{chunk['chunk_index']}"`
VectorId(filename, chunk_index) == <<filename, chunk_index>>

\* the metadata dict of a vector
VectorMetadata(chunk, filename) ==
    [text |-> Prefix(chunk.text, 1000),
     chunk_index |-> chunk.chunk_index,
     headings |-> JsonDumps(chunk.headings),
     token_count |-> chunk.token_count,
     start_char |-> chunk.start_char,
     end_char |-> chunk.end_char,
     page_numbers |-> JsonDumps(chunk.page_numbers),
     filename |-> filename,
     has_context |-> Len(chunk.headings) > 0]

\* vectors_to_upsert
VectorsToUpsert(chunks, embeddings, filename) ==
    [i \in 1..Len(chunks) |->
        [id |-> VectorId(filename, chunks[i].chunk_index),
         values |-> embeddings[i],
         metadata |-> VectorMetadata(chunks[i], filename)]]

\* the vectors a namespace of the index holds, by id
Stored(idx, namespace) ==
    IF namespace \in DOMAIN idx THEN idx[namespace] ELSE EmptyDict

\* the vectors batch[lo..hi] by id, a later vector replacing an earlier
\* one of the same id
RECURSIVE ById(_, _, _)
ById(batch, lo, hi) ==
    IF lo = hi THEN batch[lo].id :> batch[lo]
    ELSE LET mid == (lo + hi) \div 2
         IN ById(batch, mid + 1, hi) @@ ById(batch, lo, mid)

\* index.upsert(vectors=batch, namespace=namespace): the vectors of the
\* batch replace those the namespace holds under the same id
Upsert(idx, batch, namespace) ==
    IF batch = <<>> THEN idx
    ELSE DictSet(idx, namespace,
                 ById(batch, 1, Len(batch)) @@ Stored(idx, namespace))

\* `for i in range(0, len(vectors_to_upsert), batch_size)`: the batches
NumBatchesFloor(vectors) == Len(vectors) \div BatchSize
NumBatches(vectors) == (Len(vectors) + BatchSize - 1) \div BatchSize
Batch(vectors, b) ==
    SubSeq(vectors, (b - 1) * BatchSize + 1, Min(b * BatchSize, Len(vectors)))

\* the index after the first `sent` batches were upserted
RECURSIVE UpsertBatches(_, _, _, _)
UpsertBatches(idx, vectors, namespace, sent) ==
    IF sent = 0 THEN idx
    ELSE Upsert(UpsertBatches(idx, vectors, namespace, sent - 1),
                Batch(vectors, sent), namespace)

\* the upsert calls issued when the first `sent` batches succeed: these,
\* and the one that raised if there is one
UpsertCalls(vectors, sent) ==
    [b \in 1..Min(sent + 1, NumBatches(vectors)) |->
        [vectors |-> Batch(vectors, b), raised |-> b > sent]]

\* the try block of add_documents once vectors_to_upsert is prepared, when
\* the first `sent` batches succeed
UpsertInBatches(vectors, namespace, sent) ==
    [index |-> UpsertBatches(index, vectors, namespace, sent),
     upserts |-> UpsertCalls(vectors, sent),
     result |-> IF sent = NumBatches(vectors) THEN "returned"
                ELSE "Exception"]

\* add_documents(chunks, embeddings, filename, namespace) when the first
\* `sent` batches succeed: the count check raises, or the batches are
\* upserted one after another until one raises (sent < NumBatches) or all
\* are in. What the index holds afterwards, the upsert calls, the outcome.
add_documents_zip(chunks, embeddings, filename, namespace, sent) ==
    UpsertInBatches(
        VectorsToUpsert(SubSeq(chunks, 1, Min(Len(chunks), Len(embeddings))),
                        SubSeq(embeddings, 1,
                               Min(Len(chunks), Len(embeddings))),
                        filename),
        namespace, sent)
add_documents(chunks, embeddings, filename, namespace, sent) ==
    IF Len(chunks) # Len(embeddings)
    THEN [index |-> index, upserts |-> <<>>, result |-> "ValueError"]
    ELSE UpsertInBatches(VectorsToUpsert(chunks, embeddings, filename),
                         namespace, sent)

\* how many batches can succeed
SentChoices(chunks, embeddings, filename) ==
    IF Len(chunks) # Len(embeddings) THEN {0}
    ELSE 0..NumBatches(VectorsToUpsert(chunks, embeddings, filename))

\* a call of add_documents between questions
AddDocuments(chunks, embeddings, filename, namespace) ==
    /\ \E sent \in SentChoices(chunks, embeddings, filename) :
          index' = add_documents(chunks, embeddings, filename, namespace,
                                 sent).index
    /\ UNCHANGED <<add_log, sqlVars, rag, mergeVars, fallbackVars, storageVars>>

\* a call of add_documents whose arguments and upsert calls are recorded
AddDocumentsCall(chunks, embeddings, filename, namespace) ==
    /\ \E sent \in SentChoices(chunks, embeddings, filename) :
        \E done \in {add_documents(chunks, embeddings, filename, namespace,
                                   sent)} :
             /\ index' = done.index
             /\ add_log' = [result |-> done.result, namespace |-> namespace,
                            chunks |-> chunks, filename |-> filename,
                            embeddings |-> embeddings,
                            upserts |-> done.upserts]
    /\ UNCHANGED <<sqlVars, rag, mergeVars, fallbackVars, storageVars>>

\* index.query(vector, top_k, namespace): the top_k vectors of the namespace
\* most similar to the query, best first
QueryMatches(namespace, top_k) ==
    LET held == Stored(index, namespace)
        n == Min(top_k, Cardinality(DOMAIN held))
    IN
    { [i \in 1..n |-> [id |-> ids[i], score |-> held[ids[i]].values,
                        metadata |-> held[ids[i]].metadata]] :
        ids \in { seq \in [1..n -> DOMAIN held] :
                    /\ \A i, j \in 1..n : i < j =>
                          /\ seq[i] # seq[j]
                          /\ held[seq[i]].values >= held[seq[j]].values
                    /\ \A id \in DOMAIN held :
                          (\A i \in 1..n : seq[i] # id) =>
                             \A i \in 1..n : held[id].values <= held[seq[i]].values } }

\* `for match in results['matches']: chunks.append({...})`
FormatMatches(matches) ==
    [i \in 1..Len(matches) |->
        [id |-> matches[i].id,
         score |-> matches[i].score,
         text |-> matches[i].metadata.text,
         metadata |-> [filename |-> matches[i].metadata.filename,
                       chunk_index |-> matches[i].metadata.chunk_index,
                       token_count |-> matches[i].metadata.token_count]]]

\* the index holding one uploaded document in the default namespace
IndexOf(chunks) ==
    Upsert(EmptyDict, VectorsToUpsert(chunks, Embeddings(chunks), "a.pdf"),
           "default")

\* ======================================================================
\* RAGService.generate_answer
\* ======================================================================
TopKs == {1, 2}
Namespaces == {"default"}
Answers == {"answer"}
\* answers are requested with the default include_sources=True
IncludeSources == {TRUE}

RagModelName == "gpt-4-turbo-preview"
NoInformationAnswer == "I don't have enough information to answer that question. Please upload relevant documents first."

\* the matches of the index as VectorService.search formats them
SearchMatches(top_k, namespace) ==
    {FormatMatches(matches) : matches \in QueryMatches(namespace, top_k)}

\* `chunk['metadata'].get('headings', '[]')`, read back with json.loads
ContextHeadings(chunk) ==
    IF "headings" \in DOMAIN chunk.metadata
    THEN JsonLoads(chunk.metadata.headings)
    ELSE <<>>

\* _build_context: one part per chunk, in the order of the chunks. A part is
\* its "[Source i: filename (relevance: score)]" line, its "[Section: ...]"
\* line (section: the headings joined by " > "; <<>> when the line is left
\* out) and the text.
BuildContext(chunks) ==
    [i \in 1..Len(chunks) |->
        [source |-> i,
         filename |-> chunks[i].metadata.filename,
         relevance |-> chunks[i].score,
         section |-> ContextHeadings(chunks[i]),
         text |-> chunks[i].text]]

\* `if not chunks:`
NoChunksNever(chunks) == FALSE
NoChunks(chunks) == chunks = <<>>

\* _format_sources: the preview is the text (shorter than 200 characters)
\* followed by "..."
FormatSources(chunks) ==
    [i \in 1..Len(chunks) |->
        [filename |-> chunks[i].metadata.filename,
         chunk_index |-> chunks[i].metadata.chunk_index,
         relevance_score |-> chunks[i].score,
         preview |-> <<chunks[i].text, "...">>]]

\* {**d, "cache_hit": cache_hit, "cost_saved": cost_saved}
OnlyCacheTags(d, cache_hit, cost_saved) ==
    [cache_hit |-> cache_hit, cost_saved |-> cost_saved]
WithCacheTags(d, cache_hit, cost_saved) ==
    [k \in DOMAIN d \cup {"cache_hit", "cost_saved"} |->
        IF k = "cache_hit" THEN cache_hit
        ELSE IF k = "cost_saved" THEN cost_saved
        ELSE d[k]]

\* `if cached_result:`
RagCacheNeverHit(cached_result) == FALSE
RagCacheHit(cached_result) == Truthy(cached_result)

\* `cache_key = self.query_cache_service.get_rag_key(question, top_k)`
RagCacheKeyOfQuestion(question, top_k) == get_sql_gen_key(question)
RagCacheKey(question, top_k) == get_rag_key(question, top_k)

\* `raise Exception(f"RAG pipeline failed: {str(e)}")`
RagRaisedBare == [status |-> "raised", error |-> "e"]
RagRaised == [status |-> "raised", error |-> "RAG pipeline failed"]

RagWaiting == {"embed_wait", "search_wait", "llm_wait"}

\* what generate_answer never changes
nonRagVars == <<pending_queries, is_trained, schema_context, uuids_used,
                calls, exec_log, executions, resolved, mergeVars,
                fallbackVars, indexVars, storageVars>>

\* from the call up to the return of the cache-hit path or the suspension at
\* `await generate_embeddings`
AnswerStart(question, top_k, namespace, include_sources) ==
    /\ rag.pc \notin RagWaiting
    /\ now < MaxTime
    /\ now' = now + 1
    /\ LET me == [IdleRag EXCEPT !.question = question, !.top_k = top_k,
                                 !.namespace = namespace,
                                 !.include_sources = include_sources]
           cache_key == RagCacheKey(question, top_k)
           cached_result == IF CacheOn THEN CacheGet(cache_key, "rag")
                            ELSE PyNone
           ops == IF CacheOn
                  THEN {[op |-> "get", cache_type |-> "rag", key |-> cache_key]}
                  ELSE {}
       IN
       IF RagCacheHit(cached_result)
       THEN rag' = [me EXCEPT !.pc = "done", !.ops = ops,
                       !.result = WithCacheTags(cached_result, TRUE, "$0.05")]
       ELSE rag' = [me EXCEPT !.pc = "embed_wait", !.ops = ops,
                       !.external = <<"generate_embeddings">>]
    /\ UNCHANGED <<query_cache_service, cache, cache_up>>
    /\ UNCHANGED nonRagVars

\* the awaited embedding call completes: it raised, or the search is awaited
AnswerEmbedded ==
    /\ rag.pc = "embed_wait"
    /\ \/ rag' = [rag EXCEPT !.pc = "done", !.result = RagRaised]
       \/ rag' = [rag EXCEPT !.pc = "search_wait",
                      !.external = Append(@, "search")]
    /\ UNCHANGED <<query_cache_service, cache, cache_up, now>>
    /\ UNCHANGED nonRagVars

\* the awaited vector search completes: it raised, it matched nothing, or the
\* prompt is built and the generation call is awaited
AnswerSearched ==
    /\ rag.pc = "search_wait"
    /\ \/ rag' = [rag EXCEPT !.pc = "done", !.result = RagRaised]
       \/ \E chunks \in SearchMatches(rag.top_k, rag.namespace) :
            IF NoChunks(chunks)
            THEN rag' = [rag EXCEPT !.pc = "done",
                            !.result = [question |-> rag.question,
                                        answer |-> NoInformationAnswer,
                                        sources |-> <<>>,
                                        chunks_used |-> 0,
                                        model |-> RagModelName,
                                        usage |-> PyNone]]
            ELSE rag' = [rag EXCEPT !.pc = "llm_wait", !.chunks = chunks,
                            !.context = BuildContext(chunks),
                            !.external = Append(@, "chat.completions.create")]
    /\ UNCHANGED <<query_cache_service, cache, cache_up, now>>
    /\ UNCHANGED nonRagVars

\* the awaited generation call completes: it raised, or the result is built,
\* cached and returned
AnswerGenerated ==
    /\ rag.pc = "llm_wait"
    /\ \/ /\ rag' = [rag EXCEPT !.pc = "done", !.result = RagRaised]
          /\ cache' = cache
       \/ \E answer \in Answers :
            LET base == [question |-> rag.question,
                         answer |-> answer,
                         chunks_used |-> Len(rag.chunks),
                         model |-> RagModelName,
                         usage |-> "combined_usage"]
                result == IF rag.include_sources
                          THEN [k \in DOMAIN base \cup {"sources"} |->
                                  IF k = "sources" THEN FormatSources(rag.chunks)
                                  ELSE base[k]]
                          ELSE base
                cache_key == RagCacheKey(rag.question, rag.top_k)
            IN
            /\ cache' = IF CacheOn
                        THEN CacheSet(cache_key, result, CACHE_TTL_RAG, "rag")
                        ELSE cache
            /\ rag' = [rag EXCEPT
                   !.pc = "done",
                   !.ops = IF CacheOn
                           THEN @ \cup {[op |-> "set", cache_type |-> "rag",
                                         key |-> cache_key]}
                           ELSE @,
                   !.result = WithCacheTags(result, FALSE, "$0.00")]
    /\ UNCHANGED <<query_cache_service, cache_up, now>>
    /\ UNCHANGED nonRagVars

\* ======================================================================
\* AppSpec: both services behind one cache service, one request at a time
\* ======================================================================
\* no request is suspended at an awaited call
Quiescent ==
    /\ rag.pc \notin RagWaiting
    /\ \A c \in Calls : calls[c].pc \in {"idle", "done"}

\* the index is empty or holds one uploaded document
AppInit ==
    /\ ServiceInit /\ NoChunking /\ NoFallback /\ NoStorage
    /\ index \in {EmptyDict, IndexOf(TwoChunks)} /\ add_log = NoAddLog

AppNext ==
    \/ CompleteTraining
    \/ \E key \in DOMAIN cache : Expire(key)
    \/ Quiescent /\ \E c \in Calls, question \in Questions :
                       GenerateStart(c, question)
    \/ \E c \in Calls : GenerateResume(c)
    \/ Quiescent /\ \E c \in Calls, query_id \in Ids, approved \in BOOLEAN :
                       ExecuteStart(c, query_id, approved)
    \/ \E c \in Calls : ExecuteResume(c)
    \/ Quiescent /\ \E question \in Questions, top_k \in TopKs,
                        namespace \in Namespaces,
                        include_sources \in IncludeSources :
                       AnswerStart(question, top_k, namespace, include_sources)
    \/ AnswerEmbedded
    \/ AnswerSearched
    \/ AnswerGenerated

AppSpec == AppInit /\ [][AppNext]_vars

\* ======================================================================
\* RagSpec: documents are uploaded to the index and questions answered, one
\* request at a time
\* ======================================================================
RagInit ==
    /\ ServiceInit /\ NoChunking /\ NoFallback /\ NoStorage
    /\ index = EmptyDict /\ add_log = NoAddLog

RagNext ==
    \/ \E key \in DOMAIN cache : Expire(key)
    \/ \E chunks \in ChunkLists, filename \in Filenames,
          namespace \in IndexNamespaces :
         AddDocuments(chunks, Embeddings(chunks), filename, namespace)
    \/ \E question \in Questions, top_k \in TopKs,
          namespace \in IndexNamespaces, include_sources \in BOOLEAN :
         AnswerStart(question, top_k, namespace, include_sources)
    \/ AnswerEmbedded
    \/ AnswerSearched
    \/ AnswerGenerated

RagSpec == RagInit /\ [][RagNext]_vars

\* ======================================================================
\* chunk_with_hybrid: the merger of small chunks and the conversion
\* ======================================================================
\* A raw chunk is an object with a text and a meta. Its text is a sequence
\* of characters. meta.headings is a list of heading items (None and [] both
\* count as no headings, here <<>>); an item is either an object with a
\* .text attribute, [text |-> ..], or a plain string, [str |-> ..].
\* meta.origin is None (origin = FALSE) or an object whose page_numbers
\* attribute is a list (missing, None and [] all count as <<>>).
HeadingX == [text |-> "X"]
HeadingY == [text |-> "Y"]
PlainHeadingX == [str |-> "X"]

RawChunk(text, headings, origin, page_numbers) ==
    [text |-> text,
     meta |-> [headings |-> headings, origin |-> origin,
               page_numbers |-> page_numbers]]

RawChunkShapes ==
    { RawChunk(<<"a">>, <<HeadingX>>, TRUE, <<1>>),
      RawChunk(<<"b", "b">>, <<HeadingX, HeadingY>>, TRUE, <<1, 2>>),
      RawChunk(<<"c">>, <<>>, FALSE, <<>>),
      RawChunk(<<"d">>, <<PlainHeadingX>>, TRUE, <<>>),
      RawChunk(<<"e", "e", "e">>, <<HeadingY>>, TRUE, <<2>>) }

\* the lists list(chunker.chunk(dl_doc=doc)) can be
RawChunkLists == UNION {[1..n -> RawChunkShapes] : n \in 0..MaxChunks}

\* len(tiktoken_encoder.encode(text)): the paragraph break "\n\n" is one
\* token of the encoding, every other character here is a token of its own
RECURSIVE TokenCount(_)
TokenCount(text) ==
    IF text = <<>> THEN 0
    ELSE IF Len(text) >= 2 /\ text[1] = "\n" /\ text[2] = "\n"
         THEN 1 + TokenCount(SubSeq(text, 3, Len(text)))
         ELSE 1 + TokenCount(Tail(text))

ParagraphBreak == <<"\n", "\n">>

\* `for x in items: if x not in target: target.append(x)`
RECURSIVE AppendMissing(_, _)
AppendMissing(target, items) ==
    IF items = <<>> THEN target
    ELSE AppendMissing(
           IF \E i \in 1..Len(target) : target[i] = Head(items)
           THEN target
           ELSE Append(target, Head(items)),
           Tail(items))

\* `if current_tokens < min_tokens and combined_tokens <= max_tokens`
ShouldMergeBelowMax(current_tokens, token_count) ==
    current_tokens < min_tokens /\ current_tokens + token_count < max_tokens
ShouldMerge(current_tokens, token_count) ==
    current_tokens < min_tokens /\ current_tokens + token_count <= max_tokens

\* the merge branch: current_merged is changed in place
MergeIntoUnseparated(current_merged, chunk) ==
    [text |-> current_merged.text \o chunk.text,
     meta |-> current_merged.meta]
MergeInto(current_merged, chunk) ==
    [text |-> current_merged.text \o ParagraphBreak \o chunk.text,
     meta |-> [headings |->
                  IF chunk.meta.headings # <<>>
                  THEN AppendMissing(current_merged.meta.headings,
                                     chunk.meta.headings)
                  ELSE current_merged.meta.headings,
               origin |-> current_merged.meta.origin,
               page_numbers |->
                  IF /\ chunk.meta.origin
                     /\ chunk.meta.page_numbers # <<>>
                     /\ current_merged.meta.origin
                  THEN AppendMissing(current_merged.meta.page_numbers,
                                     chunk.meta.page_numbers)
                  ELSE current_merged.meta.page_numbers]]

\* `for chunk in raw_chunks:` from position i on. objs are the chunk objects
\* (changed in place), current is the position of the object current_merged
\* refers to (0 for None), merged the positions of the objects in
\* merged_chunks.
RECURSIVE MergeLoop(_, _, _, _)
MergeLoop(objs, i, current, merged) ==
    IF i > Len(objs)
    THEN [objs |-> objs,
          merged |-> IF current # 0 THEN Append(merged, current) ELSE merged]
    ELSE
      LET token_count == TokenCount(objs[i].text) IN
      IF current = 0
      THEN MergeLoop(objs, i + 1, i, merged)
      ELSE
        LET current_tokens == TokenCount(objs[current].text) IN
        IF ShouldMerge(current_tokens, token_count)
        THEN MergeLoop([objs EXCEPT ![current] = MergeInto(objs[current], objs[i])],
                       i + 1, current, merged)
        ELSE MergeLoop(objs, i + 1, i, Append(merged, current))

\* `[h.text for h in chunk.meta.headings if hasattr(h, 'text')]`
RECURSIVE HeadingTexts(_)
HeadingTexts(headings) ==
    IF headings = <<>> THEN <<>>
    ELSE IF "text" \in DOMAIN Head(headings)
         THEN <<Head(headings).text>> \o HeadingTexts(Tail(headings))
         ELSE HeadingTexts(Tail(headings))

\* `char_position = end_char`
CharPositionAfterBreak(end_char) == end_char + Len(ParagraphBreak)
CharPositionAfter(end_char) == end_char

\* `for idx, chunk in enumerate(merged_chunks):` from position n on
RECURSIVE Convert(_, _, _)
Convert(merged_chunks, n, char_position) ==
    IF n > Len(merged_chunks) THEN <<>>
    ELSE
      LET chunk == merged_chunks[n]
          start_char == char_position
          end_char == start_char + Len(chunk.text)
      IN
      <<[text |-> chunk.text,
         chunk_index |-> n - 1,
         token_count |-> TokenCount(chunk.text),
         start_char |-> start_char,
         end_char |-> end_char,
         headings |-> HeadingTexts(chunk.meta.headings),
         page_numbers |-> IF chunk.meta.origin
                          THEN chunk.meta.page_numbers ELSE <<>>,
         doc_items |-> <<>>,
         captions |-> <<>>]>>
      \o Convert(merged_chunks, n + 1, CharPositionAfter(end_char))

ChunkingFailed ==
    [status |-> "raised",
     error |-> "Failed to chunk document with HybridChunker"]

\* the text-to-SQL and RAG services are not in use
ServicesIdle ==
    /\ pending_queries = EmptyDict
    /\ is_trained = FALSE
    /\ schema_context = ""
    /\ query_cache_service = "none"
    /\ cache = EmptyDict
    /\ cache_up = TRUE
    /\ now = 0
    /\ uuids_used = {}
    /\ calls = [c \in Calls |-> IdleCall]
    /\ exec_log = {}
    /\ executions = [i \in Ids |-> 0]
    /\ resolved = {}
    /\ rag = IdleRag

MergeInit ==
    /\ ServicesIdle /\ NoFallback /\ NoStorage
    /\ index = EmptyDict /\ add_log = NoAddLog
    /\ raw_chunks \in RawChunkLists
    /\ max_tokens \in 1..TokenLimit
    /\ min_tokens \in 0..TokenLimit
    /\ chunk_runs = <<>>

\* the merger and the conversion run over raw_chunks, from the start of the
\* merge loop to the return or the raise of chunk_with_hybrid. The run is
\* recorded with the chunks as they were when it started (input), the
\* positions of the chunks that went into merged_chunks (heads) and what the
\* call returned or raised (status, chunks).
HybridRun(objs) ==
    LET loop == MergeLoop(objs, 1, 0, <<>>)
        merged_chunks == [n \in 1..Len(loop.merged) |->
                             loop.objs[loop.merged[n]]]
    IN
    [objs |-> loop.objs,
     outcome |->
        IF Len(merged_chunks) = 0
        THEN \* the average of the log line divides by zero
             [input |-> objs, heads |-> loop.merged,
              status |-> "raised", error |-> ChunkingFailed.error,
              chunks |-> <<>>]
        ELSE [input |-> objs, heads |-> loop.merged,
              status |-> "returned", error |-> "",
              chunks |-> Convert(merged_chunks, 1, 0)]]

ChunkWithHybrid ==
    /\ Len(chunk_runs) < MaxRuns
    /\ LET run == HybridRun(raw_chunks) IN
       /\ raw_chunks' = run.objs
       /\ chunk_runs' = Append(chunk_runs, run.outcome)
    /\ UNCHANGED <<max_tokens, min_tokens>>
    /\ UNCHANGED <<sqlVars, rag, fallbackVars, nonChunkVars>>

MergeNext == ChunkWithHybrid

MergeSpec == MergeInit /\ [][MergeNext]_vars

\* ======================================================================
\* chunk_text and parse_and_chunk_with_context: the fixed-window chunker
\* ======================================================================
\* A text is a sequence of characters. Besides the short texts there is one
\* text long enough to need several windows of more than FallbackOverlap
\* tokens.
TextChars == {"a", "\n"}
ShortTexts == UNION {[1..n -> TextChars] : n \in 0..MaxLen}
LongText == [i \in 1..(FallbackOverlap + 3) |-> "a"]
Texts == ShortTexts \cup {LongText}
ChunkSizes == (1..MaxSize) \cup {FallbackOverlap + 1}
Overlaps == 0..MaxSize

\* tokenizer.encode(text): a token is a piece of the text; the paragraph
\* break is one token, every other character here a token of its own
RECURSIVE Encode(_)
Encode(text) ==
    IF text = <<>> THEN <<>>
    ELSE IF Len(text) >= 2 /\ text[1] = "\n" /\ text[2] = "\n"
         THEN <<ParagraphBreak>> \o Encode(SubSeq(text, 3, Len(text)))
         ELSE <<(<<text[1]>>)>> \o Encode(Tail(text))

\* tokenizer.decode(tokens): the pieces joined
RECURSIVE Decode(_)
Decode(tokens) ==
    IF tokens = <<>> THEN <<>> ELSE Head(tokens) \o Decode(Tail(tokens))

\* `end_idx = min(start_idx + chunk_size, len(tokens))`
EndIdxShort(start_idx, size, n) == Min(start_idx + size - 1, n)
EndIdx(start_idx, size, n) == Min(start_idx + size, n)

\* `start_idx += (chunk_size - overlap)`
NextStartPastWindow(start_idx, size, lap) == start_idx + size
NextStart(start_idx, size, lap) == start_idx + (size - lap)

\* `if end_idx >= len(tokens): break`
LoopBreaks(end_idx, n) == end_idx >= n

\* `while start_idx < len(tokens):` from start_idx on; windows are the
\* chunk_tokens of the iterations so far. An iteration that neither breaks
\* nor moves start_idx forward repeats for ever: end_idx can only fall, so
\* neither exit of the loop is ever taken and the call does not return.
RECURSIVE ChunkLoop(_, _, _, _, _, _)
ChunkLoop(tokens, size, lap, start_idx, chunks, windows) ==
    IF ~(start_idx < Len(tokens))
    THEN [status |-> "returned", chunks |-> chunks, windows |-> windows]
    ELSE
      LET end_idx == EndIdx(start_idx, size, Len(tokens))
          chunk_tokens == SubSeq(tokens, start_idx + 1, end_idx)
          text == Decode(chunk_tokens)
          start_char == IF chunks # <<>>
                        THEN Max(0, chunks[Len(chunks)].end_char - (lap * 4))
                        ELSE 0
          end_char == start_char + Len(text)
          chunk_data == [text |-> text,
                         chunk_index |-> Len(chunks),
                         token_count |-> Len(chunk_tokens),
                         start_char |-> start_char,
                         end_char |-> end_char]
          next_idx == NextStart(start_idx, size, lap)
      IN
      IF LoopBreaks(end_idx, Len(tokens))
      THEN [status |-> "returned", chunks |-> Append(chunks, chunk_data),
            windows |-> Append(windows, chunk_tokens)]
      ELSE IF next_idx <= start_idx
           THEN [status |-> "diverges", chunks |-> <<>>, windows |-> <<>>]
           ELSE ChunkLoop(tokens, size, lap, next_idx,
                          Append(chunks, chunk_data),
                          Append(windows, chunk_tokens))

\* chunk_text(text, chunk_size, overlap)
chunk_text(text, size, lap) == ChunkLoop(Encode(text), size, lap, 0, <<>>, <<>>)

\* `for chunk in chunks: chunk['headings'] = [] ...`
WithEmptyMetadata(chunks) ==
    [i \in 1..Len(chunks) |->
        [text |-> chunks[i].text,
         chunk_index |-> chunks[i].chunk_index,
         token_count |-> chunks[i].token_count,
         start_char |-> chunks[i].start_char,
         end_char |-> chunks[i].end_char,
         headings |-> <<>>,
         page_numbers |-> <<>>,
         doc_items |-> <<>>,
         captions |-> <<>>]]

\* what the structural parse can make of a file it converts
StructuredDocs ==
    { <<>>,
      <<RawChunk(<<"a">>, <<HeadingX>>, TRUE, <<1>>)>>,
      <<RawChunk(<<"a">>, <<HeadingX>>, TRUE, <<1>>),
        RawChunk(<<"b", "b">>, <<HeadingX, HeadingY>>, TRUE, <<1, 2>>)>> }

\* a file, the arguments of a call and the behaviour of the structural path:
\* Docling is not installed, its conversion of the file fails, or it
\* converts the file into raw_chunks. The long text is chunked with the
\* large window only.
ChunkInit ==
    /\ ServicesIdle /\ NoStorage
    /\ index = EmptyDict /\ add_log = NoAddLog
    /\ docling \in {"unavailable", "conversion_failed", "converted"}
    /\ raw_chunks \in (IF docling = "converted" THEN StructuredDocs ELSE {<<>>})
    /\ file \in [readable : (IF docling = "converted" THEN {TRUE} ELSE BOOLEAN),
                 text : Texts]
    /\ chunk_size \in (IF file.text = LongText THEN {FallbackOverlap + 1}
                        ELSE ChunkSizes)
    /\ overlap \in Overlaps
    /\ max_tokens = chunk_size
    /\ min_tokens = 1
    /\ chunk_runs = <<>>
    /\ fallback_runs = <<>>

\* a call of chunk_text on the text of the file, from the encoding to the
\* return, recorded with its arguments, the windows it took and its outcome
\* (parsed: parse_document was called and returned the text)
ChunkText ==
    /\ Len(fallback_runs) < MaxRuns
    /\ file.readable
    /\ LET run == chunk_text(file.text, chunk_size, overlap) IN
       fallback_runs' = Append(fallback_runs,
           [fn |-> "chunk_text", text |-> file.text,
            chunk_size |-> chunk_size, overlap |-> overlap,
            structural |-> "none", parsed |-> TRUE,
            status |-> run.status, error |-> "",
            chunks |-> run.chunks, windows |-> run.windows])
    /\ UNCHANGED <<file, chunk_size, overlap, docling>>
    /\ UNCHANGED <<sqlVars, rag, mergeVars, nonChunkVars>>

\* a call of parse_and_chunk_with_context(file_path, chunk_size,
\* min_chunk_size), from the call to its return or raise. The structural
\* path chunks objects made for this call, so raw_chunks stays what the
\* parse yields for the file.
ParseAndChunkWithContext ==
    /\ Len(fallback_runs) < MaxRuns
    /\ LET hybrid == HybridRun(raw_chunks).outcome
           structural ==
             IF docling = "unavailable" THEN "ImportError"
             ELSE IF docling = "conversion_failed" THEN "Exception"
             ELSE IF hybrid.status = "raised" THEN "Exception"
             ELSE "returned"
           fixed == chunk_text(file.text, chunk_size, FallbackOverlap)
           call == [fn |-> "parse_and_chunk_with_context", text |-> file.text,
                    chunk_size |-> chunk_size, overlap |-> FallbackOverlap,
                    structural |-> structural,
                    parsed |-> structural # "returned" /\ file.readable,
                    status |-> "returned",
                    error |-> "", chunks |-> <<>>, windows |-> <<>>]
       IN
       /\ fallback_runs' = Append(fallback_runs,
            IF structural = "returned"
            THEN [call EXCEPT !.chunks = hybrid.chunks]
            ELSE IF ~file.readable
            THEN [call EXCEPT !.status = "raised",
                              !.error = "Failed to parse document"]
            ELSE IF fixed.status = "diverges"
            THEN [call EXCEPT !.status = "diverges"]
            ELSE [call EXCEPT !.chunks = WithEmptyMetadata(fixed.chunks),
                              !.windows = fixed.windows])
       /\ chunk_runs' = IF docling = "converted"
                        THEN Append(chunk_runs, hybrid)
                        ELSE chunk_runs
    /\ UNCHANGED <<file, chunk_size, overlap, docling>>
    /\ UNCHANGED <<raw_chunks, max_tokens, min_tokens>>
    /\ UNCHANGED <<sqlVars, rag, nonChunkVars>>

ChunkNext ==
    \/ ChunkText
    \/ ParseAndChunkWithContext

ChunkSpec == ChunkInit /\ [][ChunkNext]_vars

\* ======================================================================
\* IndexSpec: documents of up to MaxFullBatches full batches and one more
\* chunk are uploaded to one namespace of the index
\* ======================================================================
\* the chunk list of a document of n chunks
UploadChunks(n) == [i \in 1..n |-> StoredChunk(i - 1, <<"a">>, <<>>)]
ChunkCounts == {0, BatchSize, MaxFullBatches * BatchSize + 1}
\* how many embeddings come with n chunks: as many, one less, one more
EmbeddingCounts(n) == {k \in {n - 1, n, n + 1} : k >= 0}
\* k embeddings of a document, as one embedding model or another gives them
EmbeddingModels == {1, 2}
UploadEmbeddings(k, model) == [i \in 1..k |-> model]
UploadNamespaces == {"default"}

IndexInit ==
    /\ ServicesIdle /\ NoChunking /\ NoFallback /\ NoStorage
    /\ index = EmptyDict /\ add_log = NoAddLog

IndexNext ==
    \E n \in ChunkCounts, model \in EmbeddingModels,
       filename \in Filenames, namespace \in UploadNamespaces :
      \E k \in EmbeddingCounts(n) :
        AddDocumentsCall(UploadChunks(n), UploadEmbeddings(k, model),
                         filename, namespace)

IndexSpec == IndexInit /\ [][IndexNext]_vars

\* ======================================================================
\* LocalStorageBackend: one folder per document under the cache directory
\* ======================================================================
\* the files of a document folder
DocumentFile(file_extension) == [name |-> "document", ext |-> file_extension]
ChunksFile == [name |-> "chunks", ext |-> "json"]
EmbeddingsFile == [name |-> "embeddings", ext |-> "npy"]
MetadataFile == [name |-> "metadata", ext |-> "json"]

\* what is saved: chunk lists, embedding matrices (one row per chunk),
\* metadata dicts, the bytes of the uploaded file
EmbeddingArrays == {<<<<1, 2>>>>, <<<<1, 2>>, <<3, 4>>>>}
Metadatas == {[filename |-> "a.pdf", num_chunks |-> 1],
              [filename |-> "a.pdf", num_chunks |-> 2]}
UploadBytes == "bytes"

\* np.save(file, array): the array in the binary format
NpSave(array) == [npy |-> array]

\* np.load(file): the array read back from the binary format
NpLoad(content) == content.npy

\* how a storage call ends: with a value, or raising
Returns(value) == [returned |-> value]
FileNotFoundError == [raised |-> "FileNotFoundError"]
StorageCall(op, document_id, result) ==
    [op |-> op, document_id |-> document_id, result |-> result]

\* `doc_path.exists()`, `f.exists()`
FolderExists(document_id) == document_id \in DOMAIN cache_dir
FileExists(document_id, f) ==
    FolderExists(document_id) /\ f \in DOMAIN cache_dir[document_id]

\* `doc_path.mkdir(parents=True, exist_ok=True)`
Mkdir(document_id) ==
    IF FolderExists(document_id) THEN cache_dir
    ELSE DictSet(cache_dir, document_id, EmptyDict)

\* a file of the document folder is written (created or overwritten)
WriteFileKeepsOld(document_id, f, content) ==
    IF FileExists(document_id, f) THEN cache_dir
    ELSE DictSet(Mkdir(document_id), document_id,
                 DictSet(Mkdir(document_id)[document_id], f, content))
WriteFile(document_id, f, content) ==
    DictSet(Mkdir(document_id), document_id,
            DictSet(Mkdir(document_id)[document_id], f, content))

\* exists(document_id, file_extension)
ExistsAllFour(document_id, file_extension) ==
    /\ FileExists(document_id, DocumentFile(file_extension))
    /\ \A f \in {ChunksFile, EmbeddingsFile, MetadataFile} :
          FileExists(document_id, f)
Exists(document_id, file_extension) ==
    \A f \in {ChunksFile, EmbeddingsFile, MetadataFile} :
        FileExists(document_id, f)

\* a save that returned, with what its file held before the call
PreviousContent(document_id, f) ==
    IF FileExists(document_id, f) THEN cache_dir[document_id][f] ELSE PyNone
SaveCall(op, document_id, f) ==
    [op |-> op, document_id |-> document_id, result |-> Returns(PyNone),
     previous |-> PreviousContent(document_id, f)]

\* what the storage backend never touches
nonStorageVars == <<sqlVars, rag, mergeVars, fallbackVars, indexVars>>

\* save_document(document_id, file_path, file_extension): the folder is
\* made, then the upload is copied; the copy raises when file_path is gone
SaveDocument(document_id, file_extension, source_exists) ==
    /\ IF source_exists
       THEN /\ cache_dir' = WriteFile(document_id, DocumentFile(file_extension),
                                      UploadBytes)
            /\ artifacts' = [artifacts EXCEPT ![document_id] = @ \cup {"document"}]
            /\ saved' = [saved EXCEPT ![document_id] =
                             DictSet(@, "document", UploadBytes)]
            /\ storage_call' = StorageCall("save_document", document_id,
                                           Returns(PyNone))
       ELSE /\ cache_dir' = Mkdir(document_id)
            /\ artifacts' = artifacts
            /\ saved' = saved
            /\ storage_call' = StorageCall("save_document", document_id,
                                           FileNotFoundError)
    /\ UNCHANGED nonStorageVars

\* save_chunks(document_id, file_extension, chunks)
SaveChunks(document_id, file_extension, chunks) ==
    /\ cache_dir' = WriteFile(document_id, ChunksFile, JsonDumps(chunks))
    /\ artifacts' = [artifacts EXCEPT ![document_id] = @ \cup {"chunks"}]
    /\ saved' = [saved EXCEPT ![document_id] = DictSet(@, "chunks", chunks)]
    /\ storage_call' = SaveCall("save_chunks", document_id, ChunksFile)
    /\ UNCHANGED nonStorageVars

\* save_embeddings(document_id, file_extension, embeddings)
SaveEmbeddings(document_id, file_extension, embeddings) ==
    /\ cache_dir' = WriteFile(document_id, EmbeddingsFile, NpSave(embeddings))
    /\ artifacts' = [artifacts EXCEPT ![document_id] = @ \cup {"embeddings"}]
    /\ saved' = [saved EXCEPT ![document_id] =
                     DictSet(@, "embeddings", embeddings)]
    /\ storage_call' = SaveCall("save_embeddings", document_id, EmbeddingsFile)
    /\ UNCHANGED nonStorageVars

\* save_metadata(document_id, file_extension, metadata)
SaveMetadata(document_id, file_extension, metadata) ==
    /\ cache_dir' = WriteFile(document_id, MetadataFile, JsonDumps(metadata))
    /\ artifacts' = [artifacts EXCEPT ![document_id] = @ \cup {"metadata"}]
    /\ saved' = [saved EXCEPT ![document_id] = DictSet(@, "metadata", metadata)]
    /\ storage_call' = SaveCall("save_metadata", document_id, MetadataFile)
    /\ UNCHANGED nonStorageVars

\* load_chunks / load_embeddings / load_metadata: what the call returns or
\* raises on the current cache directory
load_chunks(document_id, file_extension) ==
    IF ~FileExists(document_id, ChunksFile) THEN FileNotFoundError
    ELSE Returns(JsonLoads(cache_dir[document_id][ChunksFile]))
load_embeddings(document_id, file_extension) ==
    IF ~FileExists(document_id, EmbeddingsFile) THEN FileNotFoundError
    ELSE Returns(NpLoad(cache_dir[document_id][EmbeddingsFile]))
load_metadata(document_id, file_extension) ==
    IF ~FileExists(document_id, MetadataFile) THEN FileNotFoundError
    ELSE Returns(JsonLoads(cache_dir[document_id][MetadataFile]))

\* a call that only reads the cache directory
ReadOnlyCall(op, document_id, result) ==
    /\ storage_call' = StorageCall(op, document_id, result)
    /\ UNCHANGED <<cache_dir, artifacts, saved>>
    /\ UNCHANGED nonStorageVars

LoadChunks(document_id, file_extension) ==
    ReadOnlyCall("load_chunks", document_id,
                 load_chunks(document_id, file_extension))
LoadEmbeddings(document_id, file_extension) ==
    ReadOnlyCall("load_embeddings", document_id,
                 load_embeddings(document_id, file_extension))
LoadMetadata(document_id, file_extension) ==
    ReadOnlyCall("load_metadata", document_id,
                 load_metadata(document_id, file_extension))

\* a delete that returned, with the artifacts the document had before
DeleteCall(document_id) ==
    [op |-> "delete", document_id |-> document_id, result |-> Returns(PyNone),
     previous |-> artifacts[document_id]]

\* delete(document_id, file_extension): the folder goes with all its files;
\* without a folder only a warning is logged
DeleteCacheFilesOnly(document_id, file_extension) ==
    /\ cache_dir' = IF FolderExists(document_id)
                    THEN DictSet(cache_dir, document_id,
                                 [f \in DOMAIN cache_dir[document_id]
                                       \ {ChunksFile, EmbeddingsFile, MetadataFile}
                                    |-> cache_dir[document_id][f]])
                    ELSE cache_dir
    /\ artifacts' = [artifacts EXCEPT ![document_id] = {}]
    /\ saved' = [saved EXCEPT ![document_id] = EmptyDict]
    /\ storage_call' = DeleteCall(document_id)
    /\ UNCHANGED nonStorageVars
Delete(document_id, file_extension) ==
    /\ cache_dir' = IF FolderExists(document_id)
                    THEN DictDel(cache_dir, document_id)
                    ELSE cache_dir
    /\ artifacts' = [artifacts EXCEPT ![document_id] = {}]
    /\ saved' = [saved EXCEPT ![document_id] = EmptyDict]
    /\ storage_call' = DeleteCall(document_id)
    /\ UNCHANGED nonStorageVars

\* list_documents(): the names of the folders of the cache directory, in
\* the order iterdir yields them (any order)
Orderings(S) ==
    {order \in [1..Cardinality(S) -> S] :
        \A i, j \in 1..Cardinality(S) : order[i] = order[j] => i = j}
ListDocuments ==
    \E document_ids \in Orderings(DOMAIN cache_dir) :
        ReadOnlyCall("list_documents", "", Returns(document_ids))

\* get_stats(): folders and the files inside them are counted
RECURSIVE CountFiles(_)
CountFiles(folders) ==
    IF folders = {} THEN 0
    ELSE LET doc_dir == CHOOSE d \in folders : TRUE
         IN Cardinality(DOMAIN cache_dir[doc_dir])
              + CountFiles(folders \ {doc_dir})
GetStats ==
    ReadOnlyCall("get_stats", "",
                 Returns([backend |-> "local",
                           total_documents |-> Cardinality(DOMAIN cache_dir),
                           total_files |-> CountFiles(DOMAIN cache_dir)]))

StorageInit ==
    /\ ServicesIdle /\ NoChunking /\ NoFallback /\ NoStorage
    /\ index = EmptyDict /\ add_log = NoAddLog

StorageNext ==
    \E document_id \in DocIds, file_extension \in Extensions :
        \/ \E source_exists \in BOOLEAN :
              SaveDocument(document_id, file_extension, source_exists)
        \/ \E chunks \in ChunkLists :
              SaveChunks(document_id, file_extension, chunks)
        \/ \E embeddings \in EmbeddingArrays :
              SaveEmbeddings(document_id, file_extension, embeddings)
        \/ \E metadata \in Metadatas :
              SaveMetadata(document_id, file_extension, metadata)
        \/ LoadChunks(document_id, file_extension)
        \/ LoadEmbeddings(document_id, file_extension)
        \/ LoadMetadata(document_id, file_extension)
        \/ Delete(document_id, file_extension)
        \/ ListDocuments
        \/ GetStats

StorageSpec == StorageInit /\ [][StorageNext]_vars

\* ======================================================================
\* Properties of the text-to-SQL workflow
\* ======================================================================

\* a request starts in slot c in this step (the clock counts the requests)
Started(c) == Free(c) /\ now' = now + 1

\* the lexical read-only check of the specification: after trimming
\* whitespace the upper-cased text starts with SELECT
LexicallyReadOnly(sql) ==
    LET t == Strip(sql) IN
    /\ Len(t) >= 6
    /\ Upper(SubSeq(t, 1, 6)) = <<"S", "E", "L", "E", "C", "T">>

LedgerWithout(query_id) ==
    /\ DOMAIN pending_queries' = DOMAIN pending_queries \ {query_id}
    /\ \A i \in DOMAIN pending_queries' : pending_queries'[i] = pending_queries[i]

NoExecution == exec_log' = exec_log /\ executions' = executions

C2_SingleResolution ==
    \A c \in Calls :
      (calls[c].op = "execute" /\ calls[c].late) =>
        /\ calls[c].pc = "done"
        /\ calls[c].result = [error |-> "Query ID not found", status |-> "error"]

C2_Witness ==
    \E c \in Calls :
      /\ calls[c].op = "execute"
      /\ calls[c].late
      /\ calls[c].approved
      /\ calls[c].pc = "done"

\* C3: when an approved execution fails, the call returns an error result and
\* the pending entry of that identifier is no longer in the ledger.
C3_EntryRemovedAfterFailedExecution ==
    \A c \in Calls :
      (/\ calls[c].op = "execute"
       /\ calls[c].pc = "done"
       /\ calls[c].found
       /\ calls[c].result.status = "error"
       /\ calls[c].result.error = "Failed to execute SQL")
      => calls[c].query_id \notin DOMAIN pending_queries

C5_RejectFrame ==
    [][\A c \in Calls :
         (/\ Started(c)
          /\ calls'[c].op = "execute"
          /\ ~calls'[c].approved
          /\ calls'[c].query_id \in DOMAIN pending_queries)
         =>
         (/\ calls'[c].pc = "done"
          /\ calls'[c].result.status = "rejected"
          /\ calls'[c].result.query_id = calls'[c].query_id
          /\ LedgerWithout(calls'[c].query_id)
          /\ NoExecution
          /\ cache' = cache
          /\ calls'[c].ops = {})]_sqlVars

C5_Witness ==
    \E c \in Calls :
      /\ calls[c].result.status = "rejected"
      /\ calls[c].query_id \notin DOMAIN pending_queries
      /\ DOMAIN pending_queries # {}

\* C6: a call with an identifier that is not in the ledger returns the
\* structured error (status 'error', error 'Query ID not found') as a value,
\* executes nothing and leaves the ledger and the caches unchanged, whether
\* approved is true or false.
C6_UnknownIdentifier ==
    [][\A c \in Calls :
         (/\ Started(c)
          /\ calls'[c].op = "execute"
          /\ calls'[c].query_id \notin DOMAIN pending_queries)
         =>
         (/\ calls'[c].pc = "done"
          /\ calls'[c].result = [error |-> "Query ID not found", status |-> "error"]
          /\ pending_queries' = pending_queries
          /\ NoExecution
          /\ cache' = cache
          /\ calls'[c].ops = {})]_sqlVars

C6_Witness ==
    \E c \in Calls :
      /\ calls[c].op = "execute"
      /\ calls[c].approved
      /\ ~calls[c].found
      /\ calls[c].pc = "done"
      /\ DOMAIN pending_queries # {}

\* C7: every sql_result cache entry was written for a lexically read-only
\* SQL text, and an approval of a text that is not read-only neither reads
\* nor writes the sql_result cache, also when its execution succeeds.
C7_OnlySelectCached ==
    /\ \A key \in DOMAIN cache :
         cache[key].cache_type = "sql_result" =>
           LexicallyReadOnly(cache[key].value.sql)
    /\ \A c \in Calls :
         (/\ calls[c].op = "execute"
          /\ calls[c].pc \in {"exec_wait", "done"}
          /\ calls[c].found
          /\ calls[c].approved
          /\ ~LexicallyReadOnly(calls[c].query_info.sql))
         => calls[c].ops = {}

C7_Witness ==
    /\ CacheOn
    /\ cache_up
    /\ \E c \in Calls :
         /\ calls[c].result.status = "executed"
         /\ calls[c].sql = SqlDelete
    /\ \E key \in DOMAIN cache : cache[key].cache_type = "sql_result"

\* the sql_result cache answers with an entry for this SQL text
ResultEntryLive(sql) ==
    CacheOn /\ cache_up /\ get_sql_result_key(sql) \in DOMAIN cache

\* C8: an approval of read-only SQL whose sql_result entry is live returns the
\* cached rows with status 'executed' and cache_hit=true, deletes the pending
\* entry and does not execute the SQL.
C8_ResultCacheHit ==
    [][\A c \in Calls :
         (/\ Started(c)
          /\ calls'[c].op = "execute"
          /\ calls'[c].approved
          /\ calls'[c].query_id \in DOMAIN pending_queries
          /\ LexicallyReadOnly(pending_queries[calls'[c].query_id].sql)
          /\ ResultEntryLive(pending_queries[calls'[c].query_id].sql))
         =>
         LET query_id == calls'[c].query_id
             entry == cache[get_sql_result_key(pending_queries[query_id].sql)]
         IN
         /\ calls'[c].pc = "done"
         /\ calls'[c].result.status = "executed"
         /\ calls'[c].result.cache_hit = TRUE
         /\ calls'[c].result.results = entry.value.results
         /\ calls'[c].result.result_count = entry.value.result_count
         /\ calls'[c].result.sql = pending_queries[query_id].sql
         /\ LedgerWithout(query_id)
         /\ NoExecution]_sqlVars

C8_Witness ==
    \E c \in Calls :
      /\ calls[c].op = "execute"
      /\ calls[c].pc = "done"
      /\ calls[c].result.status = "executed"
      /\ calls[c].result.cache_hit = TRUE
      /\ calls[c].result.results # <<>>

SqlGenEntryLive(question) ==
    CacheOn /\ cache_up /\ get_sql_gen_key(question) \in DOMAIN cache

C10_GenerationCacheHit ==
    [][\A c \in Calls :
         (/\ Started(c)
          /\ calls'[c].op = "generate"
          /\ SqlGenEntryLive(calls'[c].question))
         =>
         LET question == calls'[c].question
             cached == cache[get_sql_gen_key(question)].value
             query_id == calls'[c].result.query_id
         IN
         /\ calls'[c].pc = "done"
         /\ ~calls'[c].generated
         /\ calls'[c].result.status = "pending_approval"
         /\ calls'[c].result.cache_hit = TRUE
         /\ calls'[c].result.sql = cached.sql
         /\ calls'[c].result.question = question
         /\ query_id \notin DOMAIN pending_queries
         /\ DOMAIN pending_queries' = DOMAIN pending_queries \cup {query_id}
         /\ \A i \in DOMAIN pending_queries : pending_queries'[i] = pending_queries[i]
         /\ pending_queries'[query_id] =
              [question |-> question, sql |-> cached.sql,
               status |-> "pending_approval", generated_at |-> now',
               cache_hit |-> TRUE]]_sqlVars

C10_Witness ==
    \E c \in Calls :
      /\ calls[c].op = "generate"
      /\ calls[c].pc = "done"
      /\ calls[c].result.status = "pending_approval"
      /\ calls[c].result.cache_hit = TRUE
      /\ Cardinality(DOMAIN pending_queries) = 2

\* C11: on a sql_gen cache miss generate_sql_for_approval first makes one
\* generation call with the question and the schema context and writes
\* nothing until it returns; when it returns SQL the request writes that SQL
\* to the sql_gen cache under the key of the question and then adds one
\* pending entry with cache_hit=false; when it fails the request ends with
\* the single wrapped error 'Failed to generate SQL' and neither the cache nor
\* the ledger has changed.
C11_GenerationCacheMiss ==
    [][\A c \in Calls :
         /\ (/\ Started(c)
             /\ calls'[c].op = "generate"
             /\ is_trained
             /\ ~SqlGenEntryLive(calls'[c].question))
            =>
            (/\ calls'[c].pc = "gen_wait"
             /\ calls'[c].generated
             /\ calls'[c].gen_context = schema_context
             /\ calls'[c].trace = <<"generate_sql_async">>
             /\ pending_queries' = pending_queries
             /\ cache' = cache)
         /\ (calls[c].pc = "gen_wait" /\ calls'[c].pc = "done")
            =>
            LET question == calls[c].question
                key == get_sql_gen_key(question)
                result == calls'[c].result
            IN
            IF result.status = "raised"
            THEN /\ result.error = "Failed to generate SQL"
                 /\ pending_queries' = pending_queries
                 /\ cache' = cache
            ELSE /\ result.status = "pending_approval"
                 /\ result.cache_hit = FALSE
                 /\ result.question = question
                 /\ result.query_id \notin DOMAIN pending_queries
                 /\ DOMAIN pending_queries' =
                      DOMAIN pending_queries \cup {result.query_id}
                 /\ \A i \in DOMAIN pending_queries :
                      pending_queries'[i] = pending_queries[i]
                 /\ pending_queries'[result.query_id].sql = result.sql
                 /\ pending_queries'[result.query_id].question = question
                 /\ pending_queries'[result.query_id].cache_hit = FALSE
                 /\ IF CacheOn
                    THEN /\ calls'[c].trace = <<"generate_sql_async", "cache.set",
                                                "pending_queries[query_id]">>
                         /\ cache_up =>
                              /\ key \in DOMAIN cache'
                              /\ cache'[key].cache_type = "sql_gen"
                              /\ cache'[key].value.sql = result.sql
                              /\ \A k \in DOMAIN cache' \ {key} :
                                   k \in DOMAIN cache /\ cache'[k] = cache[k]
                    ELSE /\ calls'[c].trace = <<"generate_sql_async",
                                                "pending_queries[query_id]">>
                         /\ cache' = cache]_sqlVars

C11_Witness ==
    /\ CacheOn
    /\ cache_up
    /\ \E c \in Calls :
         /\ calls[c].op = "generate"
         /\ calls[c].result.status = "raised"
         /\ calls[c].result.error = "Failed to generate SQL"
    /\ \E c \in Calls :
         /\ calls[c].op = "generate"
         /\ calls[c].result.status = "pending_approval"
         /\ calls[c].result.cache_hit = FALSE
         /\ get_sql_gen_key(calls[c].question) \in DOMAIN cache
         /\ calls[c].result.query_id \in DOMAIN pending_queries

\* ======================================================================
\* Properties of the cache use of both services (AppSpec)
\* ======================================================================
TtlOfType(cache_type) ==
    CASE cache_type = "sql_gen" -> 86400
      [] cache_type = "sql_result" -> 900
      [] cache_type = "rag" -> 3600

\* C12: every cache entry and every cache call carries the key derivation
\* and the TTL of its own cache type: sql_gen is keyed by the question alone,
\* sql_result by the normalised SQL text alone, rag by (question, top_k); no
\* request reads or writes a cache type with the key or TTL of another type.
C12_KeyAndTtlPerCacheType ==
    /\ \A key \in DOMAIN cache :
         LET e == cache[key] IN
         /\ e.cache_type = key.type
         /\ e.ttl = TtlOfType(e.cache_type)
         /\ e.cache_type = "sql_gen" =>
              key = [type |-> "sql_gen", question |-> e.value.question]
         /\ e.cache_type = "sql_result" =>
              key = [type |-> "sql_result",
                     sql |-> Lower(Strip(e.value.sql))]
         /\ e.cache_type = "rag" =>
              \E top_k \in TopKs :
                /\ e.value.chunks_used <= top_k
                /\ key = [type |-> "rag", question |-> e.value.question,
                          top_k |-> top_k]
    /\ \A c \in Calls : \A o \in calls[c].ops :
         IF calls[c].op = "generate"
         THEN /\ o.cache_type = "sql_gen"
              /\ o.key = [type |-> "sql_gen", question |-> calls[c].question]
         ELSE /\ o.cache_type = "sql_result"
              /\ o.key = [type |-> "sql_result",
                          sql |-> Lower(Strip(calls[c].query_info.sql))]
    /\ \A o \in rag.ops :
         /\ o.cache_type = "rag"
         /\ o.key = [type |-> "rag", question |-> rag.question,
                     top_k |-> rag.top_k]

C12_Witness ==
    /\ \E key \in DOMAIN cache : cache[key].cache_type = "sql_gen"
    /\ \E key \in DOMAIN cache : cache[key].cache_type = "sql_result"
    /\ \E key \in DOMAIN cache :
         cache[key].cache_type = "rag" /\ key.top_k = 2
    /\ \E o \in rag.ops : o.op = "set"

\* the cache service is there, enabled and answering
CacheAnswers == query_cache_service = "enabled" /\ cache_up

Runs == {chunk_runs[r] : r \in 1..Len(chunk_runs)}
Returned == {run \in Runs : run.status = "returned"}

\* the raw chunks that went into output chunk j of a run: the positions from
\* its head up to the position before the next head
FirstOf(run, j) == run.heads[j]
LastOf(run, j) ==
    IF j < Len(run.heads) THEN run.heads[j + 1] - 1 ELSE Len(run.input)
Unmerged(run, j) == FirstOf(run, j) = LastOf(run, j)

\* the number of tokens of a text, counted on the text itself
RECURSIVE Tokens(_)
Tokens(text) ==
    IF text = <<>> THEN 0
    ELSE IF Len(text) >= 2 /\ SubSeq(text, 1, 2) = <<"\n", "\n">>
         THEN 1 + Tokens(SubSeq(text, 3, Len(text)))
         ELSE 1 + Tokens(SubSeq(text, 2, Len(text)))

\* C14: no output chunk has a token_count, counted on its final text, above
\* max_tokens, except an output chunk that is one unmerged raw chunk which
\* already exceeded max_tokens.
C14_TokenCeiling ==
    \A run \in Returned : \A j \in 1..Len(run.chunks) :
      \/ /\ run.chunks[j].token_count = Tokens(run.chunks[j].text)
         /\ run.chunks[j].token_count <= max_tokens
      \/ /\ Unmerged(run, j)
         /\ Tokens(run.input[FirstOf(run, j)].text) > max_tokens

\* C15: every output chunk except the last has at least min_tokens tokens,
\* or its tokens and those of the next raw chunk together exceed max_tokens:
\* an undersized accumulation is never closed while the next chunk fits.
C15_ClosedOnlyWhenFullOrNoFit ==
    \A run \in Returned : \A j \in 1..(Len(run.chunks) - 1) :
      \/ Tokens(run.chunks[j].text) >= min_tokens
      \/ Tokens(run.chunks[j].text)
           + Tokens(run.input[FirstOf(run, j + 1)].text) > max_tokens

C15_Witness ==
    \E run \in Returned :
      /\ Len(run.chunks) >= 2
      /\ ~Unmerged(run, 1)
      /\ Tokens(run.chunks[1].text) < min_tokens
      /\ Tokens(run.chunks[1].text) < max_tokens

\* a list without its repetitions, in first-seen order
RECURSIVE FirstSeen(_)
FirstSeen(list) ==
    IF list = <<>> THEN <<>>
    ELSE LET front == FirstSeen(SubSeq(list, 1, Len(list) - 1))
             last == list[Len(list)]
         IN IF \E i \in 1..Len(front) : front[i] = last
            THEN front ELSE Append(front, last)

\* the heading of a heading item, whatever the item is
HeadingOf(item) == IF "text" \in DOMAIN item THEN item.text ELSE item.str

\* the headings / page numbers of raw chunks first..last of a run, in order
RECURSIVE HeadingsOfRaw(_, _, _)
HeadingsOfRaw(run, first, last) ==
    IF first > last THEN <<>>
    ELSE [i \in 1..Len(run.input[first].meta.headings) |->
             HeadingOf(run.input[first].meta.headings[i])]
         \o HeadingsOfRaw(run, first + 1, last)

RECURSIVE PagesOfRaw(_, _, _)
PagesOfRaw(run, first, last) ==
    IF first > last THEN <<>>
    ELSE run.input[first].meta.page_numbers
         \o PagesOfRaw(run, first + 1, last)

\* C16: the headings of every output chunk are the headings of the raw
\* chunks that went into it, in first-seen order and without repetition
\* (headings [X] merged with [X, Y] give [X, Y], never [X, X, Y], never []).
C16_HeadingsUnion ==
    \A run \in Returned : \A j \in 1..Len(run.chunks) :
      run.chunks[j].headings =
        FirstSeen(HeadingsOfRaw(run, FirstOf(run, j), LastOf(run, j)))

\* C17: the page_numbers of every output chunk are the page numbers of the
\* raw chunks that went into it, each once, also when the first of them has
\* no page numbers and a later one has.
C17_PageNumbersUnion ==
    \A run \in Returned : \A j \in 1..Len(run.chunks) :
      run.chunks[j].page_numbers =
        FirstSeen(PagesOfRaw(run, FirstOf(run, j), LastOf(run, j)))

RECURSIVE TotalLength(_)
TotalLength(chunks) ==
    IF chunks = <<>> THEN 0
    ELSE Len(Head(chunks).text) + TotalLength(Tail(chunks))

\* C18: in the returned list the chunk_index of the i-th chunk is i (from
\* 0), the first start_char is 0, every end_char is start_char plus the
\* length of the text, every end_char is the start_char of the next chunk,
\* and the last end_char is the total length of all output texts.
C18_OffsetsContiguous ==
    \A run \in Returned :
      LET out == run.chunks IN
      /\ \A j \in 1..Len(out) :
           /\ out[j].chunk_index = j - 1
           /\ out[j].end_char = out[j].start_char + Len(out[j].text)
      /\ \A j \in 1..(Len(out) - 1) : out[j].end_char = out[j + 1].start_char
      /\ out # <<>> =>
           /\ out[1].start_char = 0
           /\ out[Len(out)].end_char = TotalLength(out)

C18_Witness ==
    \E run \in Returned :
      /\ Len(run.chunks) = 2
      /\ ~Unmerged(run, 1)
      /\ run.chunks[2].start_char = 4
      /\ run.chunks[2].end_char = 7

\* C19: the merger run on an empty list of raw chunks returns an empty list
\* and raises nothing.
C19_EmptyInput ==
    \A run \in Runs :
      run.input = <<>> => (run.status = "returned" /\ run.chunks = <<>>)

TextRuns ==
    {fallback_runs[i] : i \in {j \in 1..Len(fallback_runs) :
                                 fallback_runs[j].fn = "chunk_text"}}
ContextRuns ==
    {fallback_runs[i] : i \in {j \in 1..Len(fallback_runs) :
                                 fallback_runs[j].fn = "parse_and_chunk_with_context"}}

\* the calls within the contract 0 <= overlap < chunk_size
WellConfigured == {run \in TextRuns : run.overlap < run.chunk_size}

\* C21: chunk_text called with overlap >= chunk_size raises a configuration
\* error at once: the call neither runs for ever nor returns chunks.
C21_OverlapRejected ==
    \A run \in TextRuns :
        run.overlap >= run.chunk_size => run.status = "raised"

\* C22: with 0 <= overlap < chunk_size, the last `overlap` tokens of a chunk
\* are the first `overlap` tokens of the next chunk, and the next chunk has
\* at least one token beyond them.
C22_ExactOverlap ==
    \A run \in WellConfigured :
        \A i \in 1..(Len(run.windows) - 1) :
            LET this == run.windows[i]
                next == run.windows[i + 1]
            IN
            /\ Len(this) >= run.overlap
            /\ Len(next) > run.overlap
            /\ SubSeq(this, Len(this) - run.overlap + 1, Len(this))
                 = SubSeq(next, 1, run.overlap)

\* a call that produced two chunks sharing at least one token, the shared
\* part differing from the rest of the first chunk
C22_Witness ==
    \E run \in WellConfigured :
        /\ run.overlap >= 1
        /\ Len(run.windows) >= 2
        /\ run.windows[1][1] # run.windows[1][Len(run.windows[1])]

\* C23: with 0 <= overlap < chunk_size, chunk_text returns; chunk k is the
\* window of tokens that starts at k * (chunk_size - overlap); every chunk
\* but the last has chunk_size tokens and the last has between 1 and
\* chunk_size; the windows cover every token; chunk_index counts from 0
\* without gaps; an empty text gives no chunk.
C23_FixedWindows ==
    \A run \in WellConfigured :
        LET tokens == Encode(run.text)
            step == run.chunk_size - run.overlap
            n == Len(run.windows)
            first(k) == (k - 1) * step + 1
        IN
        /\ run.status = "returned"
        /\ n <= Len(tokens)
        /\ Len(run.chunks) = n
        /\ \A k \in 1..n :
            /\ run.windows[k] =
                 SubSeq(tokens, first(k),
                        Min(first(k) + run.chunk_size - 1, Len(tokens)))
            /\ Len(run.windows[k]) >= 1
            /\ Len(run.windows[k]) <= run.chunk_size
            /\ k < n => Len(run.windows[k]) = run.chunk_size
            /\ run.chunks[k].chunk_index = k - 1
            /\ run.chunks[k].token_count = Len(run.windows[k])
            /\ run.chunks[k].text = Decode(run.windows[k])
        /\ \A p \in 1..Len(tokens) :
              \E k \in 1..n :
                  first(k) <= p /\ p < first(k) + Len(run.windows[k])
        /\ run.text = <<>> => run.chunks = <<>>

\* a call that needed several windows, overlapping, the last one short
C23_Witness ==
    \E run \in WellConfigured :
        /\ run.overlap >= 1
        /\ Len(run.chunks) >= 2
        /\ run.chunks[Len(run.chunks)].token_count < run.chunk_size

\* C24: whenever the structural path of parse_and_chunk_with_context fails
\* (Docling missing, conversion or merging raised), the call returns the
\* fixed-window chunks of the text extracted from the file, each with empty
\* headings, page_numbers, doc_items and captions.
C24_FallbackOnStructuralFailure ==
    \A run \in ContextRuns :
        run.structural # "returned" /\ run.parsed =>
            /\ run.status = "returned"
            /\ Decode(Encode(run.text)) = run.text
            /\ \A p \in 1..Len(Encode(run.text)) :
                  \E k \in 1..Len(run.windows) :
                     \E q \in 1..Len(run.windows[k]) :
                        /\ run.windows[k][q] = Encode(run.text)[p]
                        /\ p - q = (k - 1) * (run.chunk_size - run.overlap)
            /\ \A k \in 1..Len(run.chunks) :
                  /\ run.chunks[k].text = Decode(run.windows[k])
                  /\ run.chunks[k].headings = <<>>
                  /\ run.chunks[k].page_numbers = <<>>
                  /\ run.chunks[k].doc_items = <<>>
                  /\ run.chunks[k].captions = <<>>

\* ======================================================================
\* Properties of the answer pipeline
\* ======================================================================
\* a generate_answer request starts in this step: the clock counts requests
AnswerCalled == now' = now + 1

\* the key of the rag cache entry of a request
RagKeyOf(request) ==
    [type |-> "rag", question |-> request.question, top_k |-> request.top_k]

\* the request returned an answer taken from the cache
AnsweredFromCache(request) ==
    /\ request.pc = "done"
    /\ "cache_hit" \in DOMAIN request.result
    /\ request.result.cache_hit = TRUE

\* the request returned an answer (it did not raise)
Answered(request) ==
    request.pc = "done" /\ "answer" \in DOMAIN request.result

ThreeCalls == <<"generate_embeddings", "search", "chat.completions.create">>

\* C25: a generate_answer request that finds, with caching enabled, a live
\* rag entry under the key of its (question, top_k) returns the cached
\* answer with cache_hit=true and makes no embedding, search or generation
\* call.
C25_RagCacheHit ==
    [][(AnswerCalled /\ CacheAnswers /\ RagKeyOf(rag') \in DOMAIN cache) =>
         /\ rag'.pc = "done"
         /\ rag'.external = <<>>
         /\ "answer" \in DOMAIN rag'.result
         /\ rag'.result.answer = cache[RagKeyOf(rag')].value.answer
         /\ rag'.result.cache_hit = TRUE]_vars

\* a request answered from the cache while the index could have been
\* searched
C25_Witness ==
    /\ AnsweredFromCache(rag)
    /\ rag.external = <<>>
    /\ Stored(index, rag.namespace) # EmptyDict

\* C26: when the vector search finds no chunk, generate_answer returns the
\* fixed 'not enough information' answer with chunks_used=0 and sources=[],
\* makes no generation call and writes nothing to the rag cache: when it
\* returns the cache holds no entry under its key, so the same request
\* repeated searches again.
C26_ZeroChunks ==
    [][(/\ rag.pc = "search_wait"
        /\ rag' # rag
        /\ Stored(index, rag.namespace) = EmptyDict
        /\ rag'.result # [status |-> "raised", error |-> "RAG pipeline failed"])
       =>
         /\ rag'.pc = "done"
         /\ rag'.result = [question |-> rag.question,
                           answer |-> NoInformationAnswer,
                           sources |-> <<>>,
                           chunks_used |-> 0,
                           model |-> RagModelName,
                           usage |-> PyNone]
         /\ rag'.external = <<"generate_embeddings", "search">>
         /\ \A o \in rag'.ops : o.op = "get"
         /\ cache' = cache
         /\ RagKeyOf(rag) \notin DOMAIN cache']_vars

\* a request got the fixed answer from a working cache service while another
\* namespace of the index held chunks
C26_Witness ==
    /\ Answered(rag)
    /\ rag.result.chunks_used = 0
    /\ rag.result.answer = NoInformationAnswer
    /\ CacheAnswers
    /\ index # EmptyDict

\* C27: a failure of the embedding call, of the vector search or of the
\* generation call reaches the caller as one wrapped error and leaves the
\* rag cache as it was; an entry is written to the rag cache only by a
\* request whose three external calls all succeeded.
C27_NoPartialResultCached ==
    [][/\ (rag' # rag /\ rag'.pc = "done" /\ ~Answered(rag')) =>
            /\ rag'.result = [status |-> "raised",
                              error |-> "RAG pipeline failed"]
            /\ cache' = cache
       /\ (\E key \in DOMAIN cache' :
              key \notin DOMAIN cache \/ cache'[key] # cache[key]) =>
            /\ rag.pc = "llm_wait"
            /\ Answered(rag')
            /\ rag'.external = ThreeCalls
            /\ \A key \in DOMAIN cache' :
                  (key \notin DOMAIN cache \/ cache'[key] # cache[key]) =>
                      key = RagKeyOf(rag)]_vars

\* the generation call of a request failed while the cache held an entry
C27_Witness ==
    /\ rag.pc = "done"
    /\ ~Answered(rag)
    /\ rag.external = ThreeCalls
    /\ cache # EmptyDict

\* C28: a request that completes a cache miss with at least one chunk
\* returns cache_hit=false and leaves its result in the rag cache under the
\* key of (question, top_k); a request with the same question and top_k that
\* starts while that entry is live returns the entry's question, answer,
\* chunks_used and sources with cache_hit=true.
C28_MissThenHit ==
    [][/\ (rag.pc = "llm_wait" /\ Answered(rag')) =>
            /\ rag'.result.cache_hit = FALSE
            /\ rag'.result.chunks_used >= 1
            /\ CacheAnswers =>
                 /\ RagKeyOf(rag) \in DOMAIN cache'
                 /\ cache'[RagKeyOf(rag)].cache_type = "rag"
                 /\ DOMAIN cache'[RagKeyOf(rag)].value
                      = DOMAIN rag'.result \ {"cache_hit", "cost_saved"}
                 /\ \A k \in DOMAIN cache'[RagKeyOf(rag)].value :
                      cache'[RagKeyOf(rag)].value[k] = rag'.result[k]
       /\ (AnswerCalled /\ CacheAnswers /\ RagKeyOf(rag') \in DOMAIN cache) =>
            /\ DOMAIN rag'.result
                 = DOMAIN cache[RagKeyOf(rag')].value
                     \cup {"cache_hit", "cost_saved"}
            /\ \A k \in DOMAIN cache[RagKeyOf(rag')].value :
                  rag'.result[k] = cache[RagKeyOf(rag')].value[k]
            /\ rag'.result.cache_hit = TRUE]_vars

\* a request got from the cache the two sources an earlier request stored
C28_Witness ==
    /\ AnsweredFromCache(rag)
    /\ rag.result.chunks_used = 2
    /\ "sources" \in DOMAIN rag.result
    /\ Len(rag.result.sources) = 2
    /\ RagKeyOf(rag) \in DOMAIN cache
    /\ cache[RagKeyOf(rag)].value.sources = rag.result.sources

\* C29: the context built for the generation call has one part per chunk
\* the search returned, in the order returned, and for every chunk that was
\* stored by add_documents with a non-empty headings list the part carries,
\* after its source line, the section line with those headings in order.
C29_SectionLineInContext ==
    rag.chunks # <<>> =>
        /\ Len(rag.context) = Len(rag.chunks)
        /\ \A i \in 1..Len(rag.chunks) :
              LET stored == index[rag.namespace][rag.chunks[i].id]
                  headings == JsonLoads(stored.metadata.headings)
              IN
              /\ rag.context[i].source = i
              /\ rag.context[i].filename = stored.metadata.filename
              /\ rag.context[i].text = stored.metadata.text
              /\ headings # <<>> => rag.context[i].section = headings

LastSaved(document_id, artifact) ==
    IF artifact \in DOMAIN saved[document_id]
    THEN Returns(saved[document_id][artifact])
    ELSE FileNotFoundError

\* C31: for chunks, embeddings and metadata, load returns a value equal to
\* the one most recently saved for that document identifier: a second save
\* overwrites the first, and saves of other artifacts or of other documents
\* do not change what load returns. Stated for what every load would
\* return in every reachable state, and for the load calls made.
C31_LoadReturnsLastSaved ==
    /\ \A document_id \in DocIds, file_extension \in Extensions :
          /\ load_chunks(document_id, file_extension)
                = LastSaved(document_id, "chunks")
          /\ load_embeddings(document_id, file_extension)
                = LastSaved(document_id, "embeddings")
          /\ load_metadata(document_id, file_extension)
                = LastSaved(document_id, "metadata")
    /\ \A artifact \in {"chunks", "embeddings", "metadata"} :
          storage_call.op = "load_" \o artifact
            => storage_call.result
                 = LastSaved(storage_call.document_id, artifact)

\* a second save_chunks has just replaced different chunks of a document
\* whose embeddings are saved too, while the other document holds other
\* chunks: load gives the new chunks for the one and the old for the other
C31_Witness ==
    \E d1, d2 \in DocIds :
        /\ storage_call.op = "save_chunks"
        /\ storage_call.document_id = d1
        /\ storage_call.previous # PyNone
        /\ storage_call.previous # JsonDumps(saved[d1]["chunks"])
        /\ "embeddings" \in DOMAIN saved[d1]
        /\ d2 # d1
        /\ "chunks" \in DOMAIN saved[d2]
        /\ saved[d2]["chunks"] # saved[d1]["chunks"]
        /\ load_chunks(d1, "pdf") = Returns(saved[d1]["chunks"])
        /\ load_chunks(d2, "pdf") = Returns(saved[d2]["chunks"])

\* the files a document has under the cache directory
FilesOf(document_id) ==
    IF FolderExists(document_id) THEN cache_dir[document_id] ELSE EmptyDict

Stored_Documents == {document_id \in DocIds : artifacts[document_id] # {}}
RECURSIVE CountArtifacts(_)
CountArtifacts(document_ids) ==
    IF document_ids = {} THEN 0
    ELSE LET document_id == CHOOSE d \in document_ids : TRUE
         IN Cardinality(artifacts[document_id])
              + CountArtifacts(document_ids \ {document_id})

\* C40: after any sequence of saves and deletes, list_documents returns
\* exactly the identifiers of the documents that have at least one saved
\* artifact and were not deleted since, each once, and get_stats reports
\* total_documents equal to the length of that list and total_files equal
\* to the number of artifacts currently stored.
C40_ListAndStats ==
    /\ storage_call.op = "list_documents" =>
          LET document_ids == storage_call.result.returned
          IN /\ {document_ids[i] : i \in 1..Len(document_ids)}
                  = Stored_Documents
             /\ Len(document_ids) = Cardinality(Stored_Documents)
    /\ storage_call.op = "get_stats" =>
          LET stats == storage_call.result.returned
          IN /\ stats.total_documents = Cardinality(Stored_Documents)
             /\ stats.total_files = CountArtifacts(DocIds)

CeilHundredth(n) ==
    CHOOSE c \in 0..n : c * 100 >= n /\ (c = 0 \/ (c - 1) * 100 < n)

\* C34: add_documents with n chunks (and n embeddings) issues ceil(n/100)
\* upsert calls one after another, each carrying at most 100 vectors, with
\* every chunk's vector sent exactly once and in chunk order; if one batch
\* fails, no later batch is sent and the batches already sent stay in the
\* index, while the vectors not sent leave the index as it was.
C34_SequentialBatches ==
    [][LET call == add_log'
           n == Len(call.chunks)
           issued == call.upserts
           accepted == {b \in 1..Len(issued) : ~issued[b].raised}
       IN call.result \in {"returned", "Exception"}
            => /\ \A b \in 1..Len(issued) :
                     /\ Len(issued[b].vectors) \in 1..100
                     /\ b < Len(issued) => /\ ~issued[b].raised
                                           /\ Len(issued[b].vectors) = 100
                     \* vector i of call b is the vector of chunk
                     \* (b - 1) * 100 + i
                     /\ \A i \in 1..Len(issued[b].vectors) :
                           \E at \in {(b - 1) * 100 + i} :
                           \E vector \in {issued[b].vectors[i]} :
                              /\ at <= n
                              /\ vector.id
                                   = VectorId(call.filename,
                                              call.chunks[at].chunk_index)
                              /\ vector.values = call.embeddings[at]
                              /\ vector.metadata.text = call.chunks[at].text
               /\ call.result = "returned"
                     => /\ Len(issued) = CeilHundredth(n)
                        /\ accepted = 1..Len(issued)
                        /\ n > 0 => (Len(issued) - 1) * 100
                                      + Len(issued[Len(issued)].vectors) = n
               /\ call.result = "Exception"
                     => /\ issued # <<>>
                        /\ issued[Len(issued)].raised
               /\ \E held \in {Stored(index, call.namespace)} :
                  \E held_after \in {Stored(index', call.namespace)} :
                  \E accepted_ids \in
                       {UNION {{issued[b].vectors[i].id :
                                  i \in 1..Len(issued[b].vectors)} :
                               b \in accepted}} :
                     /\ DOMAIN held_after = DOMAIN held \cup accepted_ids
                     /\ \A b \in accepted :
                          \A i \in 1..Len(issued[b].vectors) :
                             held_after[issued[b].vectors[i].id]
                               = issued[b].vectors[i]
                     /\ \A id \in DOMAIN held \ accepted_ids :
                          held_after[id] = held[id]
    ]_vars

\* an upload of more than 200 chunks whose second batch failed: two upsert
\* calls were issued of the three or more that were due, the first hundred
\* vectors are in the index with the new embeddings, and the vector of
\* chunk 100 is still the one of an earlier upload
C34_Witness ==
    /\ add_log.result = "Exception"
    /\ Len(add_log.chunks) > 200
    /\ Len(add_log.upserts) = 2
    /\ add_log.upserts[2].raised
    /\ LET held == Stored(index, add_log.namespace)
       IN /\ \A i \in 0..99 :
                /\ VectorId(add_log.filename, i) \in DOMAIN held
                /\ held[VectorId(add_log.filename, i)].values
                     = add_log.embeddings[i + 1]
          /\ VectorId(add_log.filename, 100) \in DOMAIN held
          /\ held[VectorId(add_log.filename, 100)].values
               # add_log.embeddings[101]

\* ======================================================================
\* Properties of overlapping requests, the ledger and the schema context
\* (SqlSpec)
\* ======================================================================

Created(c, query_id) ==
    /\ calls'[c].op = "generate"
    /\ calls'[c].pc = "done"
    /\ calls'[c].query_id = query_id
    /\ calls'[c] # calls[c]

\* an execute request of slot c for query_id has returned in this step
Resolved(c, query_id) ==
    /\ calls'[c].op = "execute"
    /\ calls'[c].pc = "done"
    /\ calls'[c].query_id = query_id
    /\ calls'[c] # calls[c]

\* the listing holds one item per ledger entry and nothing else
ListsTheLedger(listing, ledger) ==
    /\ Len(listing) = Cardinality(DOMAIN ledger)
    /\ \A k \in DOMAIN listing :
         /\ listing[k].query_id \in DOMAIN ledger
         /\ DOMAIN listing[k] = DOMAIN ledger[listing[k].query_id] \cup {"query_id"}
         /\ \A f \in DOMAIN ledger[listing[k].query_id] :
              listing[k][f] = ledger[listing[k].query_id][f]
    /\ \A qid \in DOMAIN ledger :
         \E k \in DOMAIN listing : listing[k].query_id = qid

\* C36: every entry of the pending ledger has status 'pending_approval' and
\* carries the question, sql, generated_at and cache_hit that
\* generate_sql_for_approval wrote when it created the entry; no step changes
\* an entry that stays in the ledger, an entry leaves the ledger only by an
\* execute_approved_query call for its own identifier, and
\* get_pending_queries returns exactly the current entries. The ledger is
\* looked at after every step that changes it and after every step taken
\* before the first request.
C36_LedgerEntriesImmutable ==
    [][(pending_queries' # pending_queries \/ now = 0) =>
         /\ \A query_id \in DOMAIN pending_queries' :
              /\ pending_queries'[query_id].status = "pending_approval"
              /\ IF query_id \in DOMAIN pending_queries
                 THEN pending_queries'[query_id] = pending_queries[query_id]
                 ELSE \E c \in Calls :
                        /\ Created(c, query_id)
                        /\ pending_queries'[query_id].question
                             = calls'[c].question
                        /\ pending_queries'[query_id].sql
                             = calls'[c].result.sql
                        /\ pending_queries'[query_id].cache_hit
                             = calls'[c].result.cache_hit
                        /\ pending_queries'[query_id].generated_at = now'
         /\ \A query_id \in DOMAIN pending_queries \ DOMAIN pending_queries' :
              \E c \in Calls : Resolved(c, query_id)
         /\ \E listing \in {get_pending_queries'} :
              ListsTheLedger(listing, pending_queries')]_sqlVars

C36_Witness ==
    \E c \in Calls :
      /\ calls[c].op = "execute"
      /\ calls[c].result.status = "executed"
      /\ calls[c].query_id \notin DOMAIN pending_queries
      /\ Len(get_pending_queries) = 1
      /\ get_pending_queries[1].cache_hit
      /\ get_pending_queries[1].query_id > calls[c].query_id
      /\ get_pending_queries[1].generated_at < now

\* C37: generate_sql_for_approval called before complete_training raises
\* without a cache read or write, without a generation call and without a
\* ledger entry; once complete_training has run the schema context no longer
\* changes, and every generation call is passed that same context.
C37_TrainingGate ==
    [][/\ \A c \in Calls :
            (Started(c) /\ calls'[c].op = "generate") =>
              IF ~is_trained
              THEN /\ calls'[c].pc = "done"
                   /\ calls'[c].result = NotPreparedRaised
                   /\ calls'[c].ops = {}
                   /\ ~calls'[c].generated
                   /\ calls'[c].trace = <<>>
                   /\ cache' = cache
                   /\ pending_queries' = pending_queries
                   /\ uuids_used' = uuids_used
              ELSE /\ calls'[c].result # NotPreparedRaised
                   /\ calls'[c].generated =>
                        calls'[c].gen_context = SchemaDocument
       /\ is_trained =>
            /\ is_trained'
            /\ schema_context = SchemaDocument
            /\ schema_context' = schema_context]_sqlVars

C37_Witness ==
    \E c \in Calls :
      /\ calls[c].op = "generate"
      /\ calls[c].result = NotPreparedRaised
      /\ is_trained
      /\ schema_context = SchemaDocument
      /\ pending_queries = EmptyDict
      /\ cache = EmptyDict

\* ======================================================================
\* Namespace isolation of generate_answer (RagSpec)
\* ======================================================================

\* C38: with caching enabled, what generate_answer returns for a request in
\* a namespace comes from chunks of that namespace only: every source of
\* the returned result is a vector the index holds in the namespace of the
\* request, so an answer computed from another namespace for the same
\* question and top_k is never served.
C38_NamespaceIsolation ==
    (/\ rag.pc = "done"
     /\ CacheOn
     /\ "sources" \in DOMAIN rag.result)
    =>
    \A i \in DOMAIN rag.result.sources :
      VectorId(rag.result.sources[i].filename,
               rag.result.sources[i].chunk_index)
        \in DOMAIN Stored(index, rag.namespace)

\* ======================================================================
\* Text preservation of the merger (MergeSpec)
\* ======================================================================

\* "\n\n".join(chunk.text for chunk in chunks)
RECURSIVE JoinTexts(_)
JoinTexts(chunks) ==
    IF chunks = <<>> THEN <<>>
    ELSE IF Len(chunks) = 1 THEN chunks[1].text
    ELSE chunks[1].text \o ParagraphBreak \o JoinTexts(Tail(chunks))

\* C39: the merger neither loses, duplicates nor reorders text. For every
\* call that returned, the output texts joined by the paragraph separator
\* are the raw texts joined by it, and the raw chunks are cut into
\* consecutive runs, one per output chunk: output chunk j is the join of the
\* raw chunks from its first position up to the position before the first
\* of output chunk j + 1, the first run starts at raw chunk 1 and the last
\* ends at the last raw chunk.
C39_TextPreserved ==
    \A run \in Returned :
      LET out == run.chunks IN
      /\ JoinTexts(out) = JoinTexts(run.input)
      /\ Len(run.heads) = Len(out)
      /\ FirstOf(run, 1) = 1
      /\ \A j \in 1..Len(out) :
           /\ FirstOf(run, j) <= LastOf(run, j)
           /\ out[j].text = JoinTexts(SubSeq(run.input, FirstOf(run, j),
                                             LastOf(run, j)))

C39_Witness ==
    \E run \in Returned :
      /\ Len(run.input) = 3
      /\ Len(run.chunks) = 2
      /\ run.heads = <<1, 3>>
      /\ run.chunks[1].text = <<"a", "\n", "\n", "b", "b">>
      /\ run.chunks[2].text = <<"c">>

====
